---- MODULE Spec2Model ----
(***************************************************************************)
(* A model of pystra's load-combination model (loadcomb.py) and of the     *)
(* calibration engine built on it (calibration.py).                         *)
(*                                                                         *)
(* Floating-point values are modelled as exact rationals <<num, den>>;     *)
(* reliability indices are integers in units of 1e-5.              The FORM *)
(* solver, the distribution objects, scipy's fsolve and the caller's limit *)
(* state function are external: the solver's answers are drawn from small  *)
(* sets, one draw per call.                                                *)
(***************************************************************************)
EXTENDS Integers, Sequences, FiniteSets, TLC

VARIABLES
    lc,        \* the LoadCombination object
    call,      \* the last call made on the LoadCombination object and its outcome
    cal,       \* the Calibration object (configuration, tables)
    frame,     \* the running projection strategy (locals of _calibration_alpha / _calibration_optimize)
    stdout,    \* what the engine printed
    loop,      \* locals of _calibrate_design_param / run
    comb_vrs,  \* the keys of the caller's dict_dist_comb (the combination variables)
    const_names \* the names of the caller's list_const (the parameters of the LSF that are constants)

vars == <<lc, call, cal, frame, stdout, loop, comb_vrs, const_names>>

----------------------------------------------------------------------------
(* Numbers *)

Abs(x) == IF x < 0 THEN -x ELSE x

RECURSIVE Gcd(_, _)
Gcd(a, b) == IF b = 0 THEN a ELSE Gcd(b, a % b)

\* the rational n/d in lowest terms with a positive denominator (d # 0)
Rat(n, d) ==
    LET g == Gcd(Abs(n), Abs(d))
        s == IF d < 0 THEN -1 ELSE 1
    IN  <<(s * n) \div g, (s * d) \div g>>

RInt(n) == <<n, 1>>
Zero == RInt(0)
One == RInt(1)
RAdd(a, b) == Rat(a[1] * b[2] + b[1] * a[2], a[2] * b[2])
RSub(a, b) == Rat(a[1] * b[2] - b[1] * a[2], a[2] * b[2])
RMul(a, b) == Rat(a[1] * b[1], a[2] * b[2])
\* a / b for b # 0
RDiv(a, b) == Rat(a[1] * b[2], a[2] * b[1])
RAbs(a) == <<Abs(a[1]), a[2]>>
RIsZero(a) == a[1] = 0

SeqToSet(s) == {s[i] : i \in DOMAIN s}

\* Python's None and a present value
None == [none |-> TRUE]
Some(v) == [none |-> FALSE, val |-> v]

----------------------------------------------------------------------------
(* Distribution objects and names *)

\* a random variable's marginal distribution, or a Constant (kind "const")
Dist(n, k) == [name |-> n, kind |-> k, value |-> Zero]
Constant(n, v) == [name |-> n, kind |-> "const", value |-> v]

\* the caller's declarations: resistance, static and combination variables
ResistList == <<"R">>
OtherList == <<"D">>
CombVrs == comb_vrs
ConstList == const_names
\* a name no declaration uses
Undeclared == "X"

\* dict_dist_comb[xx]["max"] and dict_dist_comb[xx]["pit"]
distributions_max(xx) == Dist(xx, "max")
distributions_pit(xx) == Dist(xx, "pit")

----------------------------------------------------------------------------
(* LoadCombination.__init__ *)

NoLC ==
    [state |-> "none", err |-> "none", dict_comb_cases |-> <<>>,
     other_none |-> TRUE, constant_none |-> TRUE, constant |-> <<>>,
     dict_dist_comb |-> <<>>]

\* the distribution a combination variable gets in a case whose governing list is loadc
CombDist_Swapped(key, loadc) ==
    IF key \in loadc THEN distributions_pit(key) ELSE distributions_max(key)

CombDist(key, loadc) ==
    IF key \in loadc THEN distributions_max(key) ELSE distributions_pit(key)

\* one case's dictionary, in insertion order: resistance, static, combination
DictLoadc(loadc, other_none) ==
    [i \in 1..Len(ResistList) |-> Dist(ResistList[i], "resist")]
    \o (IF other_none THEN <<>>
        ELSE [i \in 1..Len(OtherList) |-> Dist(OtherList[i], "other")])
    \o [i \in 1..Len(CombVrs) |-> CombDist(CombVrs[i], loadc)]

\* dict_dist: case name -> that case's dictionary
create_dict_dist_comb(cases, other_none) ==
    [c \in {cases[i].name : i \in DOMAIN cases} |->
        LET i == CHOOSE j \in DOMAIN cases : cases[j].name = c
        IN  DictLoadc(cases[i].max, other_none)]

\* the object __init__ leaves behind for the arguments cfg, or the error it raises
LCInit(cfg) ==
    IF cfg.cases_none
    THEN [NoLC EXCEPT !.state = "error", !.err = "TypeError"]
    ELSE [state |-> "ok", err |-> "none",
          dict_comb_cases |-> cfg.cases,
          other_none |-> cfg.other_none,
          constant_none |-> cfg.const_none,
          constant |-> IF cfg.const_none THEN <<>>
                       ELSE [k \in SeqToSet(ConstList) |-> cfg.zreg],
          dict_dist_comb |-> create_dict_dist_comb(cfg.cases, cfg.other_none)]

label_comb_cases(o) == [i \in DOMAIN o.dict_comb_cases |-> o.dict_comb_cases[i].name]
label_other(o) == IF o.other_none THEN <<>> ELSE OtherList
label_const(o) == IF o.constant_none THEN <<>> ELSE ConstList
label_all(o) == ResistList \o label_other(o) \o CombVrs \o label_const(o)
\* dict_comb_cases[comb]
comb_case_max(o, comb) ==
    LET i == CHOOSE j \in DOMAIN o.dict_comb_cases : o.dict_comb_cases[j].name = comb
    IN  o.dict_comb_cases[i].max

----------------------------------------------------------------------------
(* The FORM solver (external): Form(sm, ls).run() *)

\* the random variables of a stochastic model, in the model's order
ModelRvs(sm) == SelectSeq(sm, LAMBDA d : d.kind # "const")
ModelNames(sm) == [i \in DOMAIN sm |-> sm[i].name]

\* the value the model gives the name n: a Constant's value, a random
\* variable's value at the point pt
ValueAt(sm, pt, n) ==
    LET d == CHOOSE x \in SeqToSet(sm) : x.name = n
    IN  IF d.kind = "const" THEN d.value ELSE pt[n]

RECURSIVE SumAt(_, _, _)
SumAt(sm, pt, names) ==
    IF names = <<>> THEN Zero
    ELSE RAdd(ValueAt(sm, pt, Head(names)), SumAt(sm, pt, Tail(names)))

\* the point pt moved onto the limit state surface g = R*z - (D + Q1 + Q2) = 0
\* of the model sm along its resistance variable (a design point lies on the
\* surface); left alone if the model's R is frozen or its z is 0
OnSurface(sm, pt) ==
    LET names == ModelNames(sm)
        loads == SelectSeq(names, LAMBDA n : n \in SeqToSet(OtherList \o CombVrs))
        zs == SelectSeq(names, LAMBDA n : n \in SeqToSet(ConstList))
        zval == IF zs = <<>> THEN One ELSE ValueAt(sm, pt, zs[1])
        free == \E x \in SeqToSet(sm) : x.name = "R" /\ x.kind # "const"
    IN  IF free /\ ~RIsZero(zval)
        THEN [pt EXCEPT !["R"] = RDiv(SumAt(sm, pt, loads), zval)]
        ELSE pt

\* the solver's result for the model sm when it answers ans: the reliability
\* index, and the sensitivity vector and the design point, one component per
\* random variable of the model.  alpha is kept as the physical-space point
\* its projection to the target radius transforms to.
Form(sm, ans) ==
    LET rvs == ModelRvs(sm)
    IN  [model |-> sm, beta |-> ans.beta,
         alpha |-> [i \in DOMAIN rvs |-> ans.alpha[rvs[i].name]],
         xstar |-> [i \in DOMAIN rvs |-> OnSurface(sm, ans.xstar)[rvs[i].name]]]

NoForm == [model |-> <<>>, beta |-> 0, alpha |-> <<>>, xstar |-> <<>>]

----------------------------------------------------------------------------
(* LoadCombination.run_reliability_case *)

\* a declared object, swapped for the keyword argument of its name if there is one
Override(kwargs, d) == IF d.name \in DOMAIN kwargs THEN kwargs[d.name] ELSE d

\* the stochastic model of case lcn: the constants, then the case's dictionary
AssembleCase(o, lcn, kwargs) ==
    (IF o.constant_none THEN <<>>
     ELSE [i \in 1..Len(ConstList) |->
              Override(kwargs, Constant(ConstList[i], o.constant[ConstList[i]]))])
    \o [i \in DOMAIN o.dict_dist_comb[lcn] |-> Override(kwargs, o.dict_dist_comb[lcn][i])]

run_reliability_case(o, lcn, kwargs, ans) ==
    LET case == IF lcn.none THEN label_comb_cases(o)[1] ELSE lcn.val
    IN  Form(AssembleCase(o, case, kwargs), ans)

----------------------------------------------------------------------------
(* The caller's limit state function and LoadCombination.eval_lsf_kwargs *)

RECURSIVE RSum(_, _)
RSum(names, args) ==
    IF names = <<>> THEN Zero ELSE RAdd(args[Head(names)], RSum(Tail(names), args))

RECURSIVE RProd(_, _)
RProd(names, args) ==
    IF names = <<>> THEN One ELSE RMul(args[Head(names)], RProd(Tail(names), args))

\* self.lsf(**kwargs) for the limit state function g = R*z - (D + Q1 + Q2),
\* whose parameters are the names label_all: a call with other keywords is a
\* TypeError
LsfCall(o, args) ==
    IF DOMAIN args # SeqToSet(label_all(o))
    THEN [err |-> "TypeError", called |-> TRUE, args |-> args, gX |-> Zero]
    ELSE [err |-> "none", called |-> TRUE, args |-> args,
          gX |-> RSub(RProd(ResistList \o label_const(o), args),
                      RSum(label_other(o) \o CombVrs, args))]

\* the names of the random variables missing in kwargs
set_miss(o, kwargs) ==
    IF ~o.constant_none
    THEN (SeqToSet(label_all(o)) \ DOMAIN kwargs) \ DOMAIN o.constant
    ELSE SeqToSet(label_all(o)) \ DOMAIN kwargs

\* the value a constant missing in kwargs is set to
ConstFill(o, key, set_const) ==
    IF set_const.none THEN o.constant[key] ELSE set_const.val

eval_lsf_kwargs(o, set_value, set_const, kwargs) ==
    LET miss == set_miss(o, kwargs)
        kw1 == [x \in DOMAIN kwargs \cup miss |->
                   IF x \in DOMAIN kwargs THEN kwargs[x] ELSE set_value]
    IN  IF o.constant_none
        THEN \* self.constant.items() on None
             [err |-> "AttributeError", called |-> FALSE, args |-> kw1, gX |-> Zero]
        ELSE LsfCall(o, [x \in DOMAIN kw1 \cup DOMAIN o.constant |->
                            IF x \in DOMAIN kw1 THEN kw1[x]
                            ELSE ConstFill(o, x, set_const)])


----------------------------------------------------------------------------
(* Calibration: the object, and the design parameter of a design point *)

\* the first error raised by a sequence of evaluations, "none" if there is none
FirstErr(evals) ==
    LET bad == {i \in DOMAIN evals : evals[i].err # "none"}
    IN  IF bad = {} THEN "none" ELSE evals[CHOOSE i \in bad : \A j \in bad : i <= j].err

\* a table attribute that is not set yet
NoTable == [index |-> <<>>, columns |-> <<>>, at |-> <<>>]

\* Calibration(loadcombobj, target_beta, dict_nom_vals, calib_var, calib_method, est_method)
CalInit(ccfg) ==
    [state |-> "ok", beta_t |-> ccfg.beta_t, calib_method |-> ccfg.calib_method,
     est_method |-> ccfg.est_method, cvar |-> ccfg.cvar, df_nom |-> ccfg.df_nom,
     startz |-> None, runs |-> 0, err |-> "none",
     list_form_cal |-> <<>>, dfXstarcal |-> NoTable,
     df_phi |-> NoTable, df_gamma |-> NoTable, df_psi |-> NoTable]

\* label_S = label_other + label_comb_vrs
label_S(o) == label_other(o) \o CombVrs

\* z = |LSF(load side only) / LSF(resistance side only)| for the one-row
\* table dfXst (a mapping from column name to value)
calc_design_param_Xst_Signed(o, dfXst) ==
    LET Quotient(sum_loadeff, sum_resist) ==
            IF sum_loadeff.err # "none" THEN [err |-> sum_loadeff.err, z |-> Zero]
            ELSE IF sum_resist.err # "none" THEN [err |-> sum_resist.err, z |-> Zero]
            ELSE IF RIsZero(sum_resist.gX) THEN [err |-> "ZeroDivisionError", z |-> Zero]
            ELSE [err |-> "none", z |-> RDiv(sum_loadeff.gX, sum_resist.gX)]
    IN  IF ~(SeqToSet(label_S(o) \o ResistList) \subseteq DOMAIN dfXst)
        THEN [err |-> "KeyError", z |-> Zero]
        ELSE Quotient(eval_lsf_kwargs(o, Zero, None, [n \in SeqToSet(label_S(o)) |-> dfXst[n]]),
                      eval_lsf_kwargs(o, Zero, None, [n \in SeqToSet(ResistList) |-> dfXst[n]]))

calc_design_param_Xst(o, dfXst) ==
    LET Quotient(sum_loadeff, sum_resist) ==
            IF sum_loadeff.err # "none" THEN [err |-> sum_loadeff.err, z |-> Zero]
            ELSE IF sum_resist.err # "none" THEN [err |-> sum_resist.err, z |-> Zero]
            ELSE IF RIsZero(sum_resist.gX) THEN [err |-> "ZeroDivisionError", z |-> Zero]
            ELSE [err |-> "none", z |-> RAbs(RDiv(sum_loadeff.gX, sum_resist.gX))]
    IN  IF ~(SeqToSet(label_S(o) \o ResistList) \subseteq DOMAIN dfXst)
        THEN [err |-> "KeyError", z |-> Zero]
        ELSE Quotient(eval_lsf_kwargs(o, Zero, None, [n \in SeqToSet(label_S(o)) |-> dfXst[n]]),
                      eval_lsf_kwargs(o, Zero, None, [n \in SeqToSet(ResistList) |-> dfXst[n]]))

\* the labels of a FORM result's design point: the model's names but the constants'
get_df_Xstar_labels(form) == ModelNames(ModelRvs(form.model))

\* a row of values under the column labels cols, as a mapping
RowOf(cols, values) ==
    [n \in SeqToSet(cols) |-> values[CHOOSE i \in DOMAIN cols : cols[i] = n]]

----------------------------------------------------------------------------
(* The projection strategies: _calibration_alpha and _calibration_optimize *)

\* reliability indices are integers in units of 1e-5
\* np.isclose's default rtol is 1e-5 = 1 / IscloseRtolInv
IscloseRtolInv == 100000
\* abstol=1e-4 and max_iter=int(1e2), the defaults of _calibration_alpha
DefaultAbstol == 10
DefaultMaxIter == 100

\* np.isclose(a, b, atol=atol): |a - b| <= atol + rtol * |b|
isclose(a, b, atol) == Abs(a - b) * IscloseRtolInv <= atol * IscloseRtolInv + Abs(b)

\* a float (ndim 0) and a one-element array (ndim 1)
Scalar(v) == [val |-> v, ndim |-> 0]
Array1(v) == [val |-> v, ndim |-> 1]

\* kwargs.update({cvar: Constant(cvar, z)}); rel_func(**kwargs) with lcn in kwargs
RelFunc_RegisteredZ(o, c, lcn, z, ans) ==
    run_reliability_case(o, Some(lcn), <<>>, ans)

RelFunc(o, c, lcn, z, ans) ==
    run_reliability_case(o, Some(lcn), c.cvar :> Constant(c.cvar, z), ans)

NoRet == [Zk_opt |-> Scalar(Zero), form |-> NoForm]

\* the locals of _calibration_alpha when its loop is first reached
AlphaEntry(o, c, caller, lcn, z0, target_beta, abstol, max_iter, ans) ==
    LET Locals(form0) ==
            [pc |-> "loop", strategy |-> "alpha", caller |-> caller, lcn |-> lcn,
             target_beta |-> target_beta, abstol |-> abstol, max_iter |-> Some(max_iter),
             z0 |-> z0, n_iter |-> 0, z_cal |-> z0, form_cal |-> form0, beta_cal |-> form0.beta,
             alpha_cal |-> form0.alpha, columns |-> get_df_Xstar_labels(form0),
             exit |-> "none", err |-> "none", ret |-> NoRet]
    IN  Locals(RelFunc(o, c, lcn, z0.val, ans))

\* whether the iteration that made the count n ends the loop by its cap
CapHit(n, max_iter) == n = max_iter

\* the while condition of _calibration_alpha
LoopTest(f, c) == ~isclose(f.beta_cal, c.beta_t, f.abstol)

\* one iteration of the loop of _calibration_alpha, the solver answering ans
AlphaBody(o, c, f, ans) ==
    LET Step(z_cal, form_cal, capped) ==
            [f EXCEPT !.z_cal = z_cal, !.form_cal = form_cal,
                      !.beta_cal = form_cal.beta, !.alpha_cal = form_cal.alpha,
                      !.n_iter = f.n_iter + 1,
                      !.pc = IF capped THEN "returned" ELSE "loop",
                      !.exit = IF capped THEN "cap" ELSE "none",
                      !.ret = IF capped THEN [Zk_opt |-> z_cal, form |-> form_cal]
                              ELSE NoRet]
        Project(r) ==
            IF r.err # "none"
            THEN [f EXCEPT !.pc = "raised", !.err = r.err]
            ELSE Step(Array1(r.z), RelFunc(o, c, f.lcn, r.z, ans),
                      CapHit(f.n_iter + 1, f.max_iter.val))
    IN  Project(calc_design_param_Xst(o, RowOf(f.columns, f.alpha_cal)))

\* the locals of _calibration_optimize when fsolve starts from z0
OptEntry(o, c, caller, lcn, z0, target_beta, max_iter) ==
    [pc |-> "fsolve", strategy |-> "optimize", caller |-> caller, lcn |-> lcn,
     target_beta |-> target_beta, abstol |-> 0, max_iter |-> max_iter,
     z0 |-> z0, n_iter |-> 0, z_cal |-> Array1(z0.val), form_cal |-> NoForm, beta_cal |-> 0,
     alpha_cal |-> <<>>, columns |-> <<>>,
     exit |-> "none", err |-> "none", ret |-> NoRet]

----------------------------------------------------------------------------
(* Inputs *)

\* design-point and nominal values are drawn from 1..MaxVal
MaxVal == 2

CaseOrders == {<<"c1", "c2">>, <<"c2", "c1">>}
\* governing lists, one of them naming an undeclared variable
GovLists == {{}, {"Q1"}, {"Q1", "Q2"}, {"Q2", Undeclared}}

CasesOver(order, govs) ==
    {[i \in DOMAIN order |-> [name |-> order[i], max |-> g[i]]] :
        g \in [DOMAIN order -> govs]}

ConfigsOver(orders, govs, zregs) ==
    {[cases_none |-> FALSE, cases |-> cs, other_none |-> on, const_none |-> FALSE,
      zreg |-> zr] :
        cs \in UNION {CasesOver(o, govs) : o \in orders}, on \in BOOLEAN, zr \in zregs}
    \cup
    {[cases_none |-> FALSE, cases |-> cs, other_none |-> on, const_none |-> TRUE,
      zreg |-> One] :
        cs \in UNION {CasesOver(o, govs) : o \in orders}, on \in BOOLEAN}

NoCasesConfig ==
    [cases_none |-> TRUE, cases |-> <<>>, other_none |-> FALSE, const_none |-> FALSE,
     zreg |-> One]

LCConfigs == ConfigsOver(CaseOrders, GovLists, {One, RInt(2)}) \cup {NoCasesConfig}

\* keyword overrides of run_reliability_case
OverrideKwargs ==
    {<<>>,
     "z" :> Constant("z", RInt(3)),
     "Q1" :> Constant("Q1", RInt(2)),
     Undeclared :> Constant(Undeclared, One)}

\* keyword arguments of eval_lsf_kwargs
EvalValues == {RInt(v) : v \in 1..MaxVal}
EvalKwargs ==
    {<<>>, "z" :> RInt(5), Undeclared :> One}
    \cup {"R" :> v : v \in EvalValues}
    \cup {"D" :> v @@ "Q1" :> RInt(2) @@ "Q2" :> One : v \in EvalValues}

RvNames == SeqToSet(ResistList \o OtherList \o CombVrs)
\* the solver's answers: any reliability index of betas, and points of pts as
\* the projected sensitivity vector and as the design point
OracleAnswers(betas, alphas, pts) == [beta : betas, alpha : alphas, xstar : pts]
OnePoint == [n \in RvNames |-> One]

----------------------------------------------------------------------------
(* The LoadCombination object under its caller *)

NoCall == [op |-> "none", err |-> "none"]
NoCal == [state |-> "none"]
NoFrame == [pc |-> "none"]
NoLoop == [pc |-> "none"]

\* nothing is constructed yet; the caller's dict_dist_comb has the keys vrs
\* and the caller's constants have the names consts
StartNamed(vrs, consts) ==
    /\ comb_vrs = vrs
    /\ const_names = consts
    /\ lc = NoLC
    /\ call = NoCall
    /\ cal = NoCal
    /\ frame = NoFrame
    /\ stdout = <<>>
    /\ loop = NoLoop

\* the caller's one constant is the design parameter z
Start(vrs) == StartNamed(vrs, <<"z">>)

Init == Start(<<"Q1", "Q2">>)

\* LoadCombination(lsf, ..., list_const, dict_comb_cases)
Construct(cfg) ==
    /\ lc.state = "none"
    /\ lc' = LCInit(cfg)
    /\ call' = [op |-> "__init__", err |-> LCInit(cfg).err, cases_none |-> cfg.cases_none]
    /\ UNCHANGED <<comb_vrs, const_names, cal, frame, stdout, loop>>

\* lc.run_reliability_case(lcn, **kwargs), the solver answering ans
RunReliabilityCase(lcn, kwargs, ans) ==
    /\ lc.state = "ok"
    /\ cal.state = "none"
    /\ call' = [op |-> "run_reliability_case", err |-> "none", lcn |-> lcn,
                kwargs |-> kwargs, form |-> run_reliability_case(lc, lcn, kwargs, ans)]
    /\ UNCHANGED <<comb_vrs, const_names, lc, cal, frame, stdout, loop>>

\* lc.eval_lsf_kwargs(set_value, set_const, **kwargs)
EvalLsfKwargs(set_value, set_const, kwargs) ==
    /\ lc.state = "ok"
    /\ cal.state = "none"
    /\ LET r == eval_lsf_kwargs(lc, set_value, set_const, kwargs)
       IN  call' = [op |-> "eval_lsf_kwargs", err |-> r.err, set_value |-> set_value,
                    set_const |-> set_const, kwargs |-> kwargs, called |-> r.called,
                    args |-> r.args, gX |-> r.gX]
    /\ UNCHANGED <<comb_vrs, const_names, lc, cal, frame, stdout, loop>>

NextLC ==
    \/ lc.state = "none" /\ \E cfg \in LCConfigs : Construct(cfg)
    \/ \E lcn \in {None} \cup {Some(label_comb_cases(lc)[i]) : i \in DOMAIN lc.dict_comb_cases \ {1}},
          kwargs \in OverrideKwargs,
          ans \in OracleAnswers({0}, {OnePoint}, {OnePoint}) :
            RunReliabilityCase(lcn, kwargs, ans)
    \/ \E set_value \in {Zero, One}, set_const \in {None, Some(RInt(3))},
          kwargs \in EvalKwargs :
            EvalLsfKwargs(set_value, set_const, kwargs)

SpecLC == Init /\ [][NextLC]_vars


----------------------------------------------------------------------------
(* Claims about the LoadCombination object (checked under SpecLC) *)

\* the distributions the claim C1 expects in the model of a case governed by gov
ExpectedDists(o, gov) ==
    {Dist(r, "resist") : r \in SeqToSet(ResistList)}
    \cup {Dist(x, "other") : x \in SeqToSet(label_other(o))}
    \cup {Dist(v, "max") : v \in SeqToSet(CombVrs) \cap gov}
    \cup {Dist(v, "pit") : v \in SeqToSet(CombVrs) \ gov}

\* the case a recorded run_reliability_case call was made for
CallCase == IF call.lcn.none THEN label_comb_cases(lc)[1] ELSE call.lcn.val

\* C1: in the per-case dictionary of every declared case (a case with an empty
\* governing list included) every combination variable has its 'max'
\* distribution if the case's governing list names it and its 'pit'
\* distribution otherwise, every resistance and static variable appears once
\* with its registered distribution, and run_reliability_case for a case
\* assembles exactly these (but for the overridden names) and does not raise.
C1_CaseMixture ==
    /\ lc.state = "ok" =>
          \A i \in DOMAIN lc.dict_comb_cases :
             LET c == lc.dict_comb_cases[i]
                 d == lc.dict_dist_comb[c.name]
             IN  /\ SeqToSet(d) = ExpectedDists(lc, c.max)
                 /\ Len(d) = Cardinality(ExpectedDists(lc, c.max))
    /\ call.op = "run_reliability_case" =>
          /\ call.err = "none"
          /\ {x \in SeqToSet(ModelRvs(call.form.model)) : x.name \notin DOMAIN call.kwargs}
                = {x \in ExpectedDists(lc, comb_case_max(lc, CallCase)) :
                      x.name \notin DOMAIN call.kwargs}

\* C1 witness: a case with an empty governing list has been assembled and run
C1_Witness ==
    /\ call.op = "run_reliability_case"
    /\ call.err = "none"
    /\ comb_case_max(lc, CallCase) = {}
    /\ call.kwargs = <<>>
    /\ Len(call.form.model) = Len(label_all(lc))

\* C2: a governing list that names an undeclared combination variable makes
\* the constructor raise, and an override keyed by a name that is neither a
\* declared variable nor a declared constant makes run_reliability_case raise.
C2_UnknownVariableRaises ==
    /\ call.op = "__init__" /\ lc.state = "ok" =>
          \A i \in DOMAIN lc.dict_comb_cases :
             lc.dict_comb_cases[i].max \subseteq SeqToSet(CombVrs)
    /\ call.op = "run_reliability_case"
          /\ DOMAIN call.kwargs \ SeqToSet(label_all(lc)) # {}
          => call.err # "none"

\* C2, the first half alone (it fails by itself): a governing list naming
\* an undeclared variable makes the constructor raise
C2_UnknownGoverningNameRaises ==
    lc.state = "ok" =>
        \A i \in DOMAIN lc.dict_comb_cases :
           lc.dict_comb_cases[i].max \subseteq SeqToSet(CombVrs)

\* the argument the claim C8 expects the LSF to get for the declared name n
ExpectedArg(n) ==
    IF n \in DOMAIN call.kwargs THEN call.kwargs[n]
    ELSE IF n \in SeqToSet(label_const(lc))
         THEN (IF call.set_const.none THEN lc.constant[n] ELSE call.set_const.val)
         ELSE call.set_value

\* C8: eval_lsf_kwargs calls the LSF with one argument per declared name: a
\* supplied name keeps its value, a random variable not supplied gets
\* set_value, a constant not supplied gets its registered value when set_const
\* is None and set_const otherwise.
C8_EvalArguments ==
    call.op = "eval_lsf_kwargs" =>
        /\ call.called
        /\ \A n \in SeqToSet(label_all(lc)) :
              n \in DOMAIN call.args /\ call.args[n] = ExpectedArg(n)
        /\ DOMAIN call.args = SeqToSet(label_all(lc)) \cup DOMAIN call.kwargs

\* C8 restricted to a model that declares constants (list_const is not None)
C8_EvalArgumentsWithConstants ==
    call.op = "eval_lsf_kwargs" /\ ~lc.constant_none =>
        /\ call.called
        /\ \A n \in SeqToSet(label_all(lc)) :
              n \in DOMAIN call.args /\ call.args[n] = ExpectedArg(n)
        /\ DOMAIN call.args = SeqToSet(label_all(lc)) \cup DOMAIN call.kwargs

\* C20: constructed without dict_comb_cases (the default None), the
\* constructor succeeds and declares one case per combination variable, in
\* which that variable alone has its 'max' distribution and the other
\* combination variables have their 'pit' distributions.
C20_DefaultCasesPerVariable ==
    call.op = "__init__" /\ call.cases_none =>
        /\ lc.state = "ok"
        /\ Len(lc.dict_comb_cases) = Len(CombVrs)
        /\ \A i \in DOMAIN lc.dict_comb_cases :
              LET c == lc.dict_comb_cases[i]
              IN  /\ c.max = {CombVrs[i]}
                  /\ SeqToSet(lc.dict_dist_comb[c.name]) = ExpectedDists(lc, {CombVrs[i]})

\* what the constructor does for dict_comb_cases=None: it raises TypeError
\* and no object is left
C20_DefaultCasesRaiseTypeError ==
    call.op = "__init__" /\ call.cases_none => lc.state = "error" /\ call.err = "TypeError"

----------------------------------------------------------------------------
(* Inputs of the calibration *)

\* the loop of _calibration_alpha is followed for at most ExtraSteps iterations
\* past its cap, fsolve for at most FsolveBudget evaluations without a maxfev
ExtraSteps == 2
FsolveBudget == 2
\* iteration caps 0..MaxIterArg are passed to the strategies
MaxIterArg == 2

\* the target reliability index 3.0
BetaT == 3 * 100000
\* the solver's reliability indices: on target, off by abstol, by abstol plus
\* rtol * target, and further off
SolverBetas == {BetaT, BetaT + DefaultAbstol, BetaT + DefaultAbstol + 3, BetaT + 5 * DefaultAbstol}

\* projected sensitivity vectors
AlphaPoints == {[n \in RvNames |-> IF n = "R" THEN RInt(r) ELSE One] : r \in 1..MaxVal}
\* the iterates fsolve tries
FsolvePoints == {RInt(v) : v \in 1..MaxVal}

\* every combination variable governs in exactly one case
OneGoverning(order) ==
    {[i \in DOMAIN order |-> [name |-> order[i], max |-> {CombVrs[p[i]]}]] :
        p \in {q \in [DOMAIN order -> DOMAIN CombVrs] : \A i, j \in DOMAIN order : q[i] = q[j] => i = j}}

CalLCConfigs(orders, zregs) ==
    {[cases_none |-> FALSE, cases |-> cs, other_none |-> on, const_none |-> FALSE,
      zreg |-> zr] :
        cs \in UNION {OneGoverning(o) : o \in orders}, on \in BOOLEAN, zr \in zregs}

\* pd.DataFrame(data=dict_nom_vals, index=label_comb_cases): one row per
\* case, one column per name of dict_nom_vals, the value of the name in
\* every row
NomTable(o, dict_nom_vals) ==
    [index |-> label_comb_cases(o), columns |-> ResistList \o OtherList \o CombVrs,
     at |-> [c \in SeqToSet(label_comb_cases(o)) |-> [n \in RvNames |-> dict_nom_vals[n]]]]

\* nominal values: 2 for Q1, 1 for the other loads, r for the resistance
NomVals(rs) ==
    {[n \in RvNames |-> IF n = "R" THEN RInt(r) ELSE IF n = "Q1" THEN RInt(2) ELSE One] :
        r \in rs}

CalConfig(o, method, est, nom) ==
    [beta_t |-> BetaT, calib_method |-> method, est_method |-> est, cvar |-> ConstList[1],
     df_nom |-> nom]

----------------------------------------------------------------------------
(* The strategies under a direct caller *)

\* Calibration(lc, target_beta, dict_nom_vals, calib_var, ...)
NewCalibration(ccfg) ==
    /\ lc.state = "ok"
    /\ cal.state = "none"
    /\ call.op = "__init__"
    /\ cal' = CalInit(ccfg)
    /\ UNCHANGED <<comb_vrs, const_names, lc, call, frame, stdout, loop>>

\* cal._calibration_alpha(lc.run_reliability_case, z0, target_beta, abstol=, max_iter=, lcn=)
CallAlpha(lcn, z0, target_beta, abstol, max_iter, ans) ==
    /\ cal.state = "ok"
    /\ loop.pc = "none"
    /\ frame.pc = "none"
    /\ frame' = AlphaEntry(lc, cal, "caller", lcn, z0, target_beta, abstol, max_iter, ans)
    /\ UNCHANGED <<comb_vrs, const_names, lc, call, cal, stdout, loop>>

\* the loop test fails: the loop is left by convergence
AlphaConverged ==
    /\ frame.pc = "loop"
    /\ ~LoopTest(frame, cal)
    /\ frame' = [frame EXCEPT !.pc = "returned", !.exit = "converged",
                              !.ret = [Zk_opt |-> frame.z_cal, form |-> frame.form_cal]]
    /\ UNCHANGED <<comb_vrs, const_names, lc, call, cal, stdout, loop>>

\* the loop test holds: one iteration, the solver answering ans
AlphaIter(ans) ==
    /\ frame.pc = "loop"
    /\ LoopTest(frame, cal)
    /\ frame.n_iter < frame.max_iter.val + ExtraSteps
    /\ frame' = AlphaBody(lc, cal, frame, ans)
    /\ stdout' = IF frame'.exit = "cap"
                 THEN Append(stdout, "Maximum iterations exceeded! Aborting!")
                 ELSE stdout
    /\ UNCHANGED <<comb_vrs, const_names, lc, call, cal, loop>>

\* cal._calibration_optimize(lc.run_reliability_case, z0, target_beta, max_iter=, lcn=)
CallOptimize(lcn, z0, target_beta, max_iter) ==
    /\ cal.state = "ok"
    /\ loop.pc = "none"
    /\ frame.pc = "none"
    /\ frame' = OptEntry(lc, cal, "caller", lcn, z0, target_beta, max_iter)
    /\ UNCHANGED <<comb_vrs, const_names, lc, call, cal, stdout, loop>>

\* fsolve's evaluation budget: maxfev=max_iter if given
Maxfev(f) == IF f.max_iter.none THEN FsolveBudget ELSE f.max_iter.val

\* fsolve evaluates obj_func at its iterate (the solver answering ans) and
\* moves to the iterate Zk
FsolveEval(ans, Zk) ==
    /\ frame.pc = "fsolve"
    /\ frame.n_iter < Maxfev(frame)
    /\ LET form == RelFunc(lc, cal, frame.lcn, frame.z_cal.val, ans)
       IN  frame' = [frame EXCEPT !.n_iter = frame.n_iter + 1, !.z_cal = Array1(Zk),
                                  !.beta_cal = frame.target_beta - form.beta]
    /\ UNCHANGED <<comb_vrs, const_names, lc, call, cal, stdout, loop>>

\* fsolve returns its iterate, converged or (with a RuntimeWarning) out of
\* budget, and the solver is run at it, answering ans
FsolveReturn(converged, ans) ==
    /\ frame.pc = "fsolve"
    /\ IF converged THEN frame.n_iter >= 1 ELSE frame.n_iter >= Maxfev(frame)
    /\ LET form == RelFunc(lc, cal, frame.lcn, frame.z_cal.val, ans)
       IN  frame' = [frame EXCEPT !.pc = "returned", !.form_cal = form,
                                  !.exit = IF converged THEN "converged" ELSE "cap",
                                  !.ret = [Zk_opt |-> frame.z_cal, form |-> form]]
    /\ stdout' = IF converged THEN stdout
                 ELSE Append(stdout, "RuntimeWarning: The number of calls to function has reached maxfev")
    /\ UNCHANGED <<comb_vrs, const_names, lc, call, cal, loop>>

Strategy ==
    \/ AlphaConverged
    \/ \E ans \in OracleAnswers(SolverBetas, AlphaPoints, {OnePoint}) : AlphaIter(ans)
    \/ \E ans \in OracleAnswers(SolverBetas, AlphaPoints, {OnePoint}), Zk \in FsolvePoints : FsolveEval(ans, Zk)
    \/ \E converged \in BOOLEAN, ans \in OracleAnswers(SolverBetas, AlphaPoints, {OnePoint}) :
          FsolveReturn(converged, ans)

NextAlpha ==
    \/ lc.state = "none" /\ \E cfg \in CalLCConfigs({<<"c1", "c2">>}, {One, RInt(2)}) : Construct(cfg)
    \/ \E method \in {"alpha", "optimize"} :
          NewCalibration(CalConfig(lc, method, "coeff", NomTable(lc, [n \in RvNames |-> One])))
    \/ \E lcn \in SeqToSet(label_comb_cases(lc)),
          target_beta \in {BetaT, BetaT - 100000},
          abstol \in {DefaultAbstol, DefaultAbstol + 3},
          max_iter \in 0..MaxIterArg,
          ans \in OracleAnswers(SolverBetas, AlphaPoints, {OnePoint}) :
            CallAlpha(lcn, Scalar(lc.constant[cal.cvar]), target_beta, abstol, max_iter, ans)
    \/ \E lcn \in SeqToSet(label_comb_cases(lc)),
          max_iter \in {None} \cup {Some(n) : n \in 1..MaxIterArg} :
            CallOptimize(lcn, Scalar(lc.constant[cal.cvar]), BetaT, max_iter)
    \/ Strategy

SpecAlpha == Init /\ [][NextAlpha]_vars


----------------------------------------------------------------------------
(* Claims about the strategies (checked under SpecAlpha) *)

\* C3: the loop of _calibration_alpha re-evaluates the solver at most max_iter
\* times, for every cap max_iter >= 0: its body runs only while the iteration
\* count is below max_iter.
C3_AtMostMaxIterIterations ==
    frame.pc # "none" /\ frame.strategy = "alpha" => frame.n_iter <= frame.max_iter.val

\* C3 for a cap of at least 1
C3_AtMostMaxIterIterationsPositiveCap ==
    frame.pc # "none" /\ frame.strategy = "alpha" /\ frame.max_iter.val >= 1
        => frame.n_iter <= frame.max_iter.val

\* a strategy has returned from its cap and not by convergence
CappedNotConverged ==
    /\ frame.pc = "returned"
    /\ frame.exit = "cap"
    /\ frame.strategy = "alpha" => LoopTest(frame, cal)

\* the returned values hold a not-converged flag
HasNotConvergedSignal(ret) == "converged" \in DOMAIN ret /\ ~ret.converged

\* C4: a strategy that stops at its cap without convergence returns, with the
\* last iterate, an explicit not-converged signal the caller can read from
\* the returned values, and raises nothing.
C4_CapReturnsSignal ==
    CappedNotConverged =>
        /\ frame.err = "none"
        /\ frame.ret.Zk_opt = frame.z_cal
        /\ frame.ret.form = frame.form_cal
        /\ HasNotConvergedSignal(frame.ret)

\* what the code does at its cap: the last iterate and the solver's result
\* are returned as they are for a converged run and a message is printed
C4_CapReturnsLastIterateAndPrints ==
    CappedNotConverged =>
        /\ frame.err = "none"
        /\ frame.ret = [Zk_opt |-> frame.z_cal, form |-> frame.form_cal]
        /\ stdout # <<>>

\* C5: when _calibration_alpha leaves its loop by the convergence test, the
\* returned result's beta is within abstol of the argument target_beta:
\* |beta - target_beta| < abstol.
C5_ConvergedWithinAbstol ==
    frame.pc = "returned" /\ frame.strategy = "alpha" /\ frame.exit = "converged"
        => Abs(frame.ret.form.beta - frame.target_beta) < frame.abstol

\* C5 for the calls whose target_beta is the engine's beta_t (as in run)
C5_ConvergedWithinAbstolOfEngineTarget ==
    frame.pc = "returned" /\ frame.strategy = "alpha" /\ frame.exit = "converged"
    /\ frame.target_beta = cal.beta_t
        => Abs(frame.ret.form.beta - frame.target_beta) < frame.abstol

\* what the convergence test gives: beta is within abstol + rtol * |beta_t| of
\* the engine's own beta_t
C5_ConvergedIsCloseToEngineTarget ==
    frame.pc = "returned" /\ frame.strategy = "alpha" /\ frame.exit = "converged"
        => Abs(frame.ret.form.beta - cal.beta_t) * IscloseRtolInv
              <= frame.abstol * IscloseRtolInv + Abs(cal.beta_t)

\* the solver result form is the one of case lcn with the design parameter
\* frozen at z
Paired(z, form, lcn) ==
    /\ Cardinality({i \in DOMAIN form.model : form.model[i].name = cal.cvar}) = 1
    /\ \A i \in DOMAIN form.model :
          form.model[i].name = cal.cvar => form.model[i] = Constant(cal.cvar, z.val)
    /\ SeqToSet(ModelRvs(form.model)) = ExpectedDists(lc, comb_case_max(lc, lcn))

\* C6: the solver result a strategy holds or returns with a design parameter z
\* is the result for the strategy's case with the design parameter frozen at
\* exactly that z: in _calibration_alpha at the start, after every iteration
\* and at every exit, in _calibration_optimize at its return.
C6_FormPairedWithZ ==
    /\ frame.pc = "loop" => Paired(frame.z_cal, frame.form_cal, frame.lcn)
    /\ frame.pc = "returned" =>
          /\ Paired(frame.ret.Zk_opt, frame.ret.form, frame.lcn)
          /\ frame.ret = [Zk_opt |-> frame.z_cal, form |-> frame.form_cal]

\* C6 witness: the cap exit after an iteration that moved the design parameter
C6_Witness ==
    /\ frame.pc = "returned"
    /\ frame.strategy = "alpha"
    /\ frame.exit = "cap"
    /\ frame.n_iter = 2
    /\ frame.ret.Zk_opt.val # lc.constant[cal.cvar]

----------------------------------------------------------------------------
(* Tables (pandas DataFrames): an index, the columns, and a value per      *)
(* index label and column                                                  *)

\* a missing or non-finite entry (NaN, inf)
NaN == <<0, 0>>
IsNaN(x) == x[2] = 0

RLeq(a, b) == a[1] * b[2] <= b[1] * a[2]
\* x / y as pandas divides: no exception, a non-finite entry for y = 0
RDivF(x, y) == IF RIsZero(y) THEN NaN ELSE RDiv(x, y)

\* pd.DataFrame(data=data, columns=cols, index=idx): the i-th row of data
\* under the i-th index label
DataFrame_Reversed(data, cols, idx) ==
    [index |-> idx, columns |-> cols,
     at |-> [r \in SeqToSet(idx) |->
                RowOf(cols, data[Len(idx) + 1 - (CHOOSE i \in DOMAIN idx : idx[i] = r)])]]

DataFrame(data, cols, idx) ==
    [index |-> idx, columns |-> cols,
     at |-> [r \in SeqToSet(idx) |->
                RowOf(cols, data[CHOOSE i \in DOMAIN idx : idx[i] = r])]]

\* df.loc[r, c], a missing entry where the label or the column is absent
Cell(df, r, c) ==
    IF r \in SeqToSet(df.index) /\ c \in SeqToSet(df.columns) THEN df.at[r][c] ELSE NaN

\* x op y for the operators "/" and "*" of tables
Binary(op, x, y) == IF op = "/" THEN RDivF(x, y) ELSE RMul(x, y)

\* a op b, aligned on labels and columns: the union of the columns (its
\* order is not used: every such result is reselected by column labels),
\* missing where either side is
Elementwise(op, a, b) ==
    LET cols == a.columns \o SelectSeq(b.columns, LAMBDA c : c \notin SeqToSet(a.columns))
        Entry(x, y) == IF IsNaN(x) \/ IsNaN(y) THEN NaN ELSE Binary(op, x, y)
    IN  [index |-> a.index, columns |-> cols,
         at |-> [r \in SeqToSet(a.index) |-> [c \in SeqToSet(cols) |->
                    Entry(Cell(a, r, c), Cell(b, r, c))]]]

\* df[cols]
Select(df, cols) ==
    [index |-> df.index, columns |-> cols,
     at |-> [r \in SeqToSet(df.index) |-> [c \in SeqToSet(cols) |-> Cell(df, r, c)]]]

\* pd.concat((a, b), axis=1)
ConcatColumns(a, b) ==
    [index |-> a.index, columns |-> a.columns \o b.columns,
     at |-> [r \in SeqToSet(a.index) |-> [c \in SeqToSet(a.columns \o b.columns) |->
                IF c \in SeqToSet(a.columns) THEN a.at[r][c] ELSE b.at[r][c]]]]

\* df[name] = arr: the column name set (and added if new) from the array,
\* by position
SetColumn(df, name, arr) ==
    LET cols == IF name \in SeqToSet(df.columns) THEN df.columns
                ELSE Append(df.columns, name)
    IN  [index |-> df.index, columns |-> cols,
         at |-> [r \in SeqToSet(df.index) |-> [c \in SeqToSet(cols) |->
                    IF c = name THEN arr[CHOOSE i \in DOMAIN df.index : df.index[i] = r]
                    ELSE df.at[r][c]]]]

\* df.loc[[xx], :] as the mapping of its one row
RowAt(df, xx) == df.at[xx]

\* df.max() of the column c
RECURSIVE ColumnMaxFrom(_, _, _)
ColumnMaxFrom(df, c, i) ==
    IF i = Len(df.index) THEN df.at[df.index[i]][c]
    ELSE LET m == ColumnMaxFrom(df, c, i + 1)
             x == df.at[df.index[i]][c]
         IN  IF RLeq(x, m) THEN m ELSE x

\* the sum of the column c
RECURSIVE ColumnSumFrom(_, _, _)
ColumnSumFrom(df, c, i) ==
    IF i > Len(df.index) THEN Zero
    ELSE RAdd(df.at[df.index[i]][c], ColumnSumFrom(df, c, i + 1))

\* df.clip(df.sum(), axis=1): every entry raised to its column's sum
ClipToMax_Sum(df) ==
    [df EXCEPT !.at = [r \in SeqToSet(df.index) |-> [c \in SeqToSet(df.columns) |->
        LET m == ColumnSumFrom(df, c, 1)
        IN  IF RLeq(m, df.at[r][c]) THEN df.at[r][c] ELSE m]]]

\* df.clip(df.max(), axis=1): every entry raised to its column's maximum
ClipToMax(df) ==
    [df EXCEPT !.at = [r \in SeqToSet(df.index) |-> [c \in SeqToSet(df.columns) |->
        LET m == ColumnMaxFrom(df, c, 1)
        IN  IF RLeq(m, df.at[r][c]) THEN df.at[r][c] ELSE m]]]

\* np.fill_diagonal(df.values, 0.0) where values is a view of the table
FillDiagonalZero(df) ==
    [df EXCEPT !.at = [r \in SeqToSet(df.index) |-> [c \in SeqToSet(df.columns) |->
        IF \E i \in DOMAIN df.index \cap DOMAIN df.columns :
              df.index[i] = r /\ df.columns[i] = c
        THEN Zero ELSE df.at[r][c]]]]

----------------------------------------------------------------------------
(* The coefficient method and the design parameter of the factors *)

\* calc_Xst_nom: the design points over the nominal values; then, case by
\* case in dictionary order, the entries of the case's governing variables
\* copied to the other cases' rows
\* the table left as the division gave it
SpreadGoverning_None(df, cases, k) == df

RECURSIVE SpreadGoverning(_, _, _)
SpreadGoverning(df, cases, k) ==
    IF k > Len(cases) THEN df
    ELSE LET comb == cases[k].name
             vrs == cases[k].max
             next == [df EXCEPT !.at = [r \in SeqToSet(df.index) |->
                         [c \in SeqToSet(df.columns) |->
                             IF r # comb /\ c \in vrs THEN df.at[comb][c]
                             ELSE df.at[r][c]]]]
         IN  SpreadGoverning(next, cases, k + 1)

calc_Xst_nom(o, c, dfXstar) ==
    Select(SpreadGoverning(Elementwise("/", dfXstar, c.df_nom), o.dict_comb_cases, 1),
           dfXstar.columns)

calc_phi(dfXstnom) == Select(dfXstnom, ResistList)

get_phi_max(dfphi) == ClipToMax(dfphi)

\* pd.concat of calc_gamma's static and combination tables
calc_gamma(o, dfXstnom) ==
    ConcatColumns(Select(dfXstnom, label_other(o)), Select(dfXstnom, CombVrs))

\* get_psi_max; values tells what DataFrame.values of the copy is: a
\* "view" of the table (fill_diagonal writes into the table), a "copy" (the
\* table is left alone) or a "readonly" view (fill_diagonal raises)
get_psi_max(dfpsi, values) ==
    IF values = "readonly" THEN [err |-> "ValueError", df |-> dfpsi]
    ELSE [err |-> "none",
          df |-> ClipToMax(IF values = "view" THEN FillDiagonalZero(dfpsi) ELSE dfpsi)]

calc_pg_coeff(o, c, dfXst) ==
    LET Psi(df_phi, df_gamma) ==
            [df_phi |-> df_phi, df_gamma |-> df_gamma,
             df_psi |-> Select(Elementwise("/", Elementwise("/", dfXst, df_gamma), c.df_nom),
                               label_S(o))]
        Factors(df_Xst_nom) == Psi(calc_phi(df_Xst_nom), calc_gamma(o, df_Xst_nom))
    IN  Factors(calc_Xst_nom(o, c, dfXst))

estimate_factors_coeff(o, c, set_max, values) ==
    LET Maxed(f, psi_max) ==
            [err |-> psi_max.err, df_phi |-> get_phi_max(f.df_phi),
             df_gamma |-> f.df_gamma, df_psi |-> psi_max.df]
        SetMax(f) ==
            IF set_max THEN Maxed(f, get_psi_max(f.df_psi, values))
            ELSE [err |-> "none", df_phi |-> f.df_phi, df_gamma |-> f.df_gamma,
                  df_psi |-> f.df_psi]
    IN  SetMax(calc_pg_coeff(o, c, c.dfXstarcal))

\* calc_df_pgRS: the nominal values times their factors
calc_df_pgRS(o, c) ==
    LET S == label_S(o)
        pS == Elementwise("*", Elementwise("*", Select(c.df_nom, S), c.df_gamma), c.df_psi)
        label_R == SelectSeq(ResistList, LAMBDA n : n \notin SeqToSet(S))
        pR == Elementwise("*", Select(c.df_nom, label_R), c.df_phi)
    IN  [c.df_nom EXCEPT !.at = [r \in SeqToSet(c.df_nom.index) |->
            [n \in SeqToSet(c.df_nom.columns) |->
                IF n \in SeqToSet(label_R) THEN Cell(pR, r, n)
                ELSE IF n \in SeqToSet(S) THEN Cell(pS, r, n)
                ELSE c.df_nom.at[r][n]]]]

\* get_design_param_factor: calc_design_param_Xst of every case's row of
\* calc_df_pgRS; the array, or the first error raised
get_design_param_factor(o, c) ==
    LET Array(zs) ==
            IF FirstErr(zs) = "none"
            THEN [err |-> "none", array_z |-> [i \in DOMAIN zs |-> zs[i].z]]
            ELSE [err |-> FirstErr(zs), array_z |-> <<>>]
        Rows(df_pgRS) ==
            Array([i \in DOMAIN label_comb_cases(o) |->
                      calc_design_param_Xst(o, RowAt(df_pgRS, label_comb_cases(o)[i]))])
    IN  Rows(calc_df_pgRS(o, c))

----------------------------------------------------------------------------
(* The matrix method *)

\* a matrix is a sequence of rows; the matrix m without its row i and its
\* column j
Minor(m, i, j) ==
    [r \in 1..(Len(m) - 1) |-> [k \in 1..(Len(m) - 1) |->
        m[IF r < i THEN r ELSE r + 1][IF k < j THEN k ELSE k + 1]]]

\* the determinant of a square matrix, expanded along its first row
RECURSIVE Det(_)
RECURSIVE DetFrom(_, _)
DetFrom(m, j) ==
    IF j > Len(m) THEN Zero
    ELSE LET term == RMul(m[1][j], Det(Minor(m, 1, j)))
         IN  RAdd(IF j % 2 = 1 THEN term ELSE RSub(Zero, term), DetFrom(m, j + 1))

Det(m) == IF Len(m) = 0 THEN One ELSE DetFrom(m, 1)

\* np.linalg.solve(a, b): the solution of a x = b, or LinAlgError for a
\* matrix that is not square or is singular
linalg_solve(a, b) ==
    IF a = <<>> \/ Len(a[1]) # Len(a) \/ Len(b) # Len(a) \/ RIsZero(Det(a))
    THEN [err |-> "LinAlgError", x |-> <<>>]
    ELSE [err |-> "none",
          x |-> [j \in 1..Len(a) |->
                    RDiv(Det([r \in 1..Len(a) |-> [k \in 1..Len(a) |->
                                 IF k = j THEN b[r] ELSE a[r][k]]]),
                         Det(a))]]

\* calc_phiRz_egS_vect: per case, the LSF at the case's design point and
\* design parameter with the non-governing combination variables left out
calc_phiRz_egS_vect(o, c, dfXstar) ==
    LET label_all_rvs == SeqToSet(ResistList \o CombVrs \o label_other(o)) \cup {c.cvar}
        Eval(comb, names) ==
            IF ~(names \subseteq SeqToSet(dfXstar.columns))
            THEN [err |-> "KeyError", gX |-> Zero]
            ELSE eval_lsf_kwargs(o, Zero, None, [n \in names |-> dfXstar.at[comb][n]])
        Vect(evals) == [err |-> FirstErr(evals), vect |-> [i \in DOMAIN evals |-> evals[i].gX]]
    IN  Vect([i \in DOMAIN dfXstar.index |->
                Eval(dfXstar.index[i],
                     label_all_rvs \ (SeqToSet(CombVrs) \ comb_case_max(o, dfXstar.index[i])))])

\* calc_epgS_mat without its np.fill_diagonal
calc_epgS_mat_NoFill(o, dfgammanom) ==
    LET Diff(e_comb, e_other) ==
            [err |-> IF e_comb.err # "none" THEN e_comb.err ELSE e_other.err,
             gX |-> RSub(e_comb.gX, e_other.gX)]
        Row(comb) ==
            Diff(eval_lsf_kwargs(o, Zero, None,
                     [n \in SeqToSet(label_S(o)) \ comb_case_max(o, comb) |->
                         dfgammanom.at[comb][n]]),
                 eval_lsf_kwargs(o, Zero, None,
                     [n \in SeqToSet(label_other(o)) |-> dfgammanom.at[comb][n]]))
        Mat(evals) ==
            [err |-> FirstErr(evals),
             mat |-> [i \in DOMAIN evals |-> [j \in DOMAIN CombVrs |->
                        RMul(evals[i].gX, RInt(0 - 1))]]]
    IN  Mat([i \in DOMAIN dfgammanom.index |-> Row(dfgammanom.index[i])])

\* calc_epgS_mat: per case, the LSF of the factored nominal loads other
\* than the governing ones less that of the static ones, written to every
\* entry of the case's row; then the sign changed and the diagonal zeroed
calc_epgS_mat(o, dfgammanom) ==
    LET Diff(e_comb, e_other) ==
            [err |-> IF e_comb.err # "none" THEN e_comb.err ELSE e_other.err,
             gX |-> RSub(e_comb.gX, e_other.gX)]
        Row(comb) ==
            Diff(eval_lsf_kwargs(o, Zero, None,
                     [n \in SeqToSet(label_S(o)) \ comb_case_max(o, comb) |->
                         dfgammanom.at[comb][n]]),
                 eval_lsf_kwargs(o, Zero, None,
                     [n \in SeqToSet(label_other(o)) |-> dfgammanom.at[comb][n]]))
        Mat(evals) ==
            [err |-> FirstErr(evals),
             mat |-> [i \in DOMAIN evals |-> [j \in DOMAIN CombVrs |->
                        IF i = j THEN Zero ELSE RMul(evals[i].gX, RInt(0 - 1))]]]
    IN  Mat([i \in DOMAIN dfgammanom.index |-> Row(dfgammanom.index[i])])

\* _get_psi_row_mat with psi laid out along the columns instead of the rows
get_psi_row_mat_Transposed(num_other_vrs, psi_comb_vrs) ==
    [i \in DOMAIN psi_comb_vrs |->
        [k \in 1..num_other_vrs |-> One]
        \o [j \in DOMAIN psi_comb_vrs |-> IF i = j THEN One ELSE psi_comb_vrs[i]]]

\* _get_psi_row_mat for a one-dimensional psi: a row per component, ones
\* for the static variables, then psi with 1 on the diagonal
get_psi_row_mat(num_other_vrs, psi_comb_vrs) ==
    [i \in DOMAIN psi_comb_vrs |->
        [k \in 1..num_other_vrs |-> One]
        \o [j \in DOMAIN psi_comb_vrs |-> IF i = j THEN One ELSE psi_comb_vrs[j]]]

calc_pg_matrix(o, c, dfXst) ==
    LET Result(df_phi, df_gamma, phiRz_egS, epgS_mat, psi) ==
            IF phiRz_egS.err # "none"
            THEN [err |-> phiRz_egS.err, df_phi |-> df_phi, df_gamma |-> df_gamma,
                  psi |-> <<>>, df_psi |-> NoTable]
            ELSE IF epgS_mat.err # "none"
            THEN [err |-> epgS_mat.err, df_phi |-> df_phi, df_gamma |-> df_gamma,
                  psi |-> <<>>, df_psi |-> NoTable]
            ELSE IF psi.err # "none"
            THEN [err |-> psi.err, df_phi |-> df_phi, df_gamma |-> df_gamma,
                  psi |-> <<>>, df_psi |-> NoTable]
            ELSE [err |-> "none", df_phi |-> df_phi, df_gamma |-> df_gamma,
                  psi |-> psi.x,
                  df_psi |-> DataFrame(get_psi_row_mat(Len(label_other(o)), psi.x),
                                       df_gamma.columns, df_gamma.index)]
        Solve(df_phi, df_gamma, phiRz_egS, epgS_mat) ==
            Result(df_phi, df_gamma, phiRz_egS, epgS_mat,
                   linalg_solve(epgS_mat.mat, phiRz_egS.vect))
        Sides(df_phi, df_gamma) ==
            Solve(df_phi, df_gamma, calc_phiRz_egS_vect(o, c, dfXst),
                  calc_epgS_mat(o, Elementwise("*", ConcatColumns(df_phi, df_gamma), c.df_nom)))
        Factors(df_Xst_nom) == Sides(calc_phi(df_Xst_nom), calc_gamma(o, df_Xst_nom))
    IN  Factors(calc_Xst_nom(o, c, dfXst))

estimate_factors_matrix(o, c, set_max) ==
    LET PhiMax(f) == [f EXCEPT !.df_phi = IF set_max /\ f.err = "none"
                                          THEN get_phi_max(f.df_phi) ELSE f.df_phi]
    IN  PhiMax(calc_pg_matrix(o, c, c.dfXstarcal))

----------------------------------------------------------------------------
(* Calibration.run: _run_calibration, then the factor estimation *)

\* _get_df_Xstar(list_form_obj, idx=idx): the design points of the results,
\* under the labels of the first result
get_df_Xstar(list_form_obj, idx) ==
    DataFrame([i \in DOMAIN list_form_obj |-> list_form_obj[i].xstar],
              get_df_Xstar_labels(list_form_obj[1]), idx)

\* np.concatenate(list_z_cal): one array of the parts' entries, or ValueError
\* for an empty list and for a zero-dimensional part
concatenate(list_z_cal) ==
    IF list_z_cal = <<>> \/ \E i \in DOMAIN list_z_cal : list_z_cal[i].ndim = 0
    THEN [err |-> "ValueError", arr |-> <<>>]
    ELSE [err |-> "none", arr |-> [i \in DOMAIN list_z_cal |-> list_z_cal[i].val]]

\* the factor tables run() assigns for est_method (or the error the
\* estimation raises); the tables as they are for a method run() has no
\* branch for
estimate_factors(o, c, est_method, set_max, values) ==
    IF est_method = "coeff" THEN estimate_factors_coeff(o, c, set_max, values)
    ELSE IF est_method = "matrix" THEN estimate_factors_matrix(o, c, set_max)
    ELSE [err |-> "none", df_phi |-> c.df_phi, df_gamma |-> c.df_gamma, df_psi |-> c.df_psi]

\* cal.set_startz(zz)
SetStartz(zz) ==
    /\ cal.state = "ok"
    /\ loop.pc = "none"
    /\ frame.pc = "none"
    /\ cal.startz.none
    /\ cal' = [cal EXCEPT !.startz = Some(zz)]
    /\ UNCHANGED <<comb_vrs, const_names, lc, call, frame, stdout, loop>>

\* the z0 the loop of _calibrate_design_param passes to the strategy of its
\* next case: the last calibrated design parameter
CaseStart_Warm(l) ==
    IF l.list_z_cal = <<>> THEN l.startz ELSE l.list_z_cal[Len(l.list_z_cal)].val

\* the z0 the loop of _calibrate_design_param passes to the strategy of its
\* next case: z0=startz
CaseStart(l) == l.startz

\* cal.run(est_method, set_max): _calibrate_design_param up to its loop.
\* The arguments est_method and set_max are first read after
\* _run_calibration has returned: they are drawn where they are read.
Run ==
    /\ cal.state = "ok"
    /\ loop.pc = "none"
    /\ frame.pc = "none"
    /\ loop' = [pc |-> IF cal.startz.none /\ lc.constant_none THEN "raised" ELSE "cases",
                err |-> IF cal.startz.none /\ lc.constant_none THEN "TypeError" ELSE "none",
                est_method |-> "", set_max |-> FALSE,
                startz |-> IF ~cal.startz.none THEN cal.startz.val
                           ELSE IF lc.constant_none THEN Zero
                           ELSE lc.constant[cal.cvar],
                i |-> 1, list_z_cal |-> <<>>, list_form_cal |-> <<>>, produced |-> <<>>]
    /\ UNCHANGED <<comb_vrs, const_names, lc, call, cal, frame, stdout>>

\* the loop of _calibrate_design_param calls the strategy for its next case,
\* the solver answering ans to the strategy's first evaluation
CaseCall(ans) ==
    /\ loop.pc = "cases"
    /\ frame.pc = "none"
    /\ loop.i <= Len(label_comb_cases(lc))
    /\ LET lcn == label_comb_cases(lc)[loop.i]
       IN  IF cal.calib_method = "optimize"
           THEN /\ frame' = OptEntry(lc, cal, "run", lcn, Scalar(CaseStart(loop)), cal.beta_t, None)
                /\ loop' = loop
           ELSE IF cal.calib_method = "alpha"
           THEN /\ frame' = AlphaEntry(lc, cal, "run", lcn, Scalar(CaseStart(loop)), cal.beta_t,
                                       DefaultAbstol, DefaultMaxIter, ans)
                /\ loop' = loop
           ELSE \* no branch binds zcal: list_z_cal.append(zcal) fails
                /\ frame' = frame
                /\ loop' = [loop EXCEPT !.pc = "raised", !.err = "UnboundLocalError"]
    /\ UNCHANGED <<comb_vrs, const_names, lc, call, cal, stdout>>

\* the strategy returns (or raises) and the loop appends its results
CaseReturn ==
    /\ loop.pc = "cases"
    /\ frame.pc \in {"returned", "raised"}
    /\ frame.caller = "run"
    /\ loop' = IF frame.pc = "raised"
               THEN [loop EXCEPT !.pc = "raised", !.err = frame.err]
               ELSE [loop EXCEPT !.i = loop.i + 1,
                        !.list_z_cal = Append(loop.list_z_cal, frame.ret.Zk_opt),
                        !.list_form_cal = Append(loop.list_form_cal, frame.ret.form),
                        !.produced = Append(loop.produced,
                            [lcn |-> frame.lcn, z |-> frame.ret.Zk_opt.val,
                             xstar |-> frame.ret.form.xstar])]
    /\ frame' = NoFrame
    /\ UNCHANGED <<comb_vrs, const_names, lc, call, cal, stdout>>

\* the loop is over: the results are concatenated, the design-point table
\* is built, and the factors are estimated by the method est_method of the
\* call (the engine's if None)
Finish(est_method_arg, set_max, values) ==
    /\ loop.pc = "cases"
    /\ frame.pc = "none"
    /\ loop.i > Len(label_comb_cases(lc))
    /\ LET Assign(built, est_method, f) ==
               IF f.err # "none"
               THEN \* _run_calibration has set the table; the estimation raises
                    /\ loop' = [loop EXCEPT !.pc = "raised", !.err = f.err,
                                            !.est_method = est_method, !.set_max = set_max]
                    /\ cal' = built
               ELSE /\ loop' = [loop EXCEPT !.pc = "done", !.est_method = est_method,
                                            !.set_max = set_max]
                    /\ cal' = [built EXCEPT !.runs = cal.runs + 1,
                                            !.df_phi = f.df_phi, !.df_gamma = f.df_gamma,
                                            !.df_psi = f.df_psi]
           Estimate(built, est_method) ==
               Assign(built, est_method, estimate_factors(lc, built, est_method, set_max, values))
           Build(arr_zcal) ==
               IF arr_zcal.err # "none"
               THEN /\ loop' = [loop EXCEPT !.pc = "raised", !.err = arr_zcal.err]
                    /\ cal' = cal
               ELSE Estimate([cal EXCEPT !.list_form_cal = loop.list_form_cal,
                                         !.dfXstarcal =
                                             SetColumn(get_df_Xstar(loop.list_form_cal,
                                                                    label_comb_cases(lc)),
                                                       "z", arr_zcal.arr)],
                             IF est_method_arg.none THEN cal.est_method ELSE est_method_arg.val)
       IN  Build(concatenate(loop.list_z_cal))
    /\ UNCHANGED <<comb_vrs, const_names, lc, call, frame, stdout>>

\* cal.get_design_param_factor()
GetDesignParamFactor ==
    /\ cal.state = "ok"
    /\ loop.pc = "done"
    /\ call.op # "get_design_param_factor"
    /\ LET r == IF cal.df_gamma = NoTable
                THEN [err |-> "AttributeError", array_z |-> <<>>]
                ELSE get_design_param_factor(lc, cal)
       IN  call' = [op |-> "get_design_param_factor", err |-> r.err, array_z |-> r.array_z]
    /\ UNCHANGED <<comb_vrs, const_names, lc, cal, frame, stdout, loop>>

----------------------------------------------------------------------------
(* The engine under a caller that runs it *)

\* the load combinations the engine is run on: the cases declared in the
\* order c2, c1, each governed by one combination variable
RunLCConfigs ==
    {[cases_none |-> FALSE, cases |-> cs, other_none |-> FALSE, const_none |-> FALSE,
      zreg |-> zr] : cs \in OneGoverning(<<"c2", "c1">>), zr \in {One, RInt(2)}}
    \cup {[cases_none |-> FALSE, cases |-> <<[name |-> "c1", max |-> {"Q1"}],
                                             [name |-> "c2", max |-> {"Q2"}]>>,
            other_none |-> on, const_none |-> ~on, zreg |-> One] : on \in BOOLEAN}

\* the solver's answers during a run: on target or off it, with one of two
\* pairs of a projected sensitivity vector and a design point
RunBetas == {BetaT, BetaT + 5 * DefaultAbstol}
RunAnswers ==
    {[beta |-> b,
      alpha |-> [n \in RvNames |-> IF n = "R" THEN RInt(v) ELSE One],
      xstar |-> [n \in RvNames |-> IF n = CombVrs[1] THEN RInt(v) ELSE One]] :
        b \in RunBetas, v \in {1, 2}}

\* the arguments of run: est_method, set_max, and with them what
\* DataFrame.values is in this build (it is read by get_psi_max only)
RunArguments ==
    {<<e, FALSE, "view">> : e \in {None, Some("coeff"), Some("unknown")}}
    \cup {<<e, TRUE, v>> : e \in {None, Some("coeff")}, v \in {"view", "copy", "readonly"}}

NextRun ==
    \/ lc.state = "none" /\ \E cfg \in RunLCConfigs : Construct(cfg)
    \/ \E method \in {"alpha", "optimize", "newton"}, nom \in NomVals({2}) :
          NewCalibration(CalConfig(lc, method, "matrix", NomTable(lc, nom)))
    \/ lc.constant_none /\ SetStartz(RInt(2))
    \/ Run
    \/ \E ans \in RunAnswers : CaseCall(ans)
    \/ AlphaConverged
    \/ \E ans \in RunAnswers : AlphaIter(ans)
    \/ \E ans \in RunAnswers, Zk \in FsolvePoints : FsolveEval(ans, Zk)
    \/ \E converged \in BOOLEAN, ans \in RunAnswers : FsolveReturn(converged, ans)
    \/ CaseReturn
    \/ \E a \in RunArguments : Finish(a[1], a[2], a[3])
    \/ GetDesignParamFactor

SpecRun == Init /\ [][NextRun]_vars

----------------------------------------------------------------------------
(* Claims about a run (checked under SpecRun) *)

\* C7: cases are calibrated one after another in declaration order, and the
\* calibrated design-point table has exactly one row per declared case in
\* that order: row i holds the design point and the design parameter that
\* the strategy produced for the i-th declared case.
C7_TableRowsInDeclarationOrder ==
    LET cases == label_comb_cases(lc)
    IN  /\ loop.pc # "none" =>
            /\ Len(loop.produced) <= Len(cases)
            /\ \A i \in DOMAIN loop.produced : loop.produced[i].lcn = cases[i]
            /\ frame.pc # "none" => frame.lcn = cases[Len(loop.produced) + 1]
        /\ loop.pc = "done" =>
            /\ cal.dfXstarcal.index = cases
            /\ Len(loop.produced) = Len(cases)
            /\ \A i \in DOMAIN cases :
                  LET row == cal.dfXstarcal.at[cal.dfXstarcal.index[i]]
                      cols == get_df_Xstar_labels(cal.list_form_cal[1])
                  IN  /\ row["z"] = loop.produced[i].z
                      /\ \A k \in DOMAIN cols : row[cols[k]] = loop.produced[i].xstar[k]

\* a table is built whose two cases were calibrated to different design
\* parameters and design points, the declared order not being the sorted one
C7_Witness ==
    /\ loop.pc = "done"
    /\ label_comb_cases(lc) = <<"c2", "c1">>
    /\ loop.produced[1].z # loop.produced[2].z
    /\ loop.produced[1].xstar # loop.produced[2].xstar
    /\ cal.dfXstarcal.at["c2"]["z"] = loop.produced[1].z

\* C10: round trip: after a run whose factors were estimated from the
\* calibrated design points, get_design_param_factor returns every case's
\* calibrated design parameter (the z entry of the design-point table),
\* whatever value the design-parameter constant was registered with.
C10_RoundTrip ==
    call.op = "get_design_param_factor" /\ loop.est_method \in {"coeff", "matrix"} /\ ~loop.set_max =>
        /\ call.err = "none"
        /\ \A i \in DOMAIN label_comb_cases(lc) :
              call.array_z[i] = cal.dfXstarcal.at[label_comb_cases(lc)[i]]["z"]

\* the i-th declared case is governed by the i-th combination variable
GoverningAligned(o) ==
    /\ Len(o.dict_comb_cases) = Len(CombVrs)
    /\ \A i \in DOMAIN CombVrs : o.dict_comb_cases[i].max = {CombVrs[i]}

\* the round trip holds when the design-parameter constant is registered
\* with the value 1; in general the value returned is the calibrated design
\* parameter over the registered value (for the coefficient method, and
\* for the matrix method where the i-th case is governed by the i-th
\* combination variable)
C10_RoundTripOverRegisteredValue ==
    call.op = "get_design_param_factor" /\ ~loop.set_max /\ ~lc.constant_none
    /\ (loop.est_method = "coeff" \/ (loop.est_method = "matrix" /\ GoverningAligned(lc))) =>
        /\ call.err = "none"
        /\ \A i \in DOMAIN label_comb_cases(lc) :
              call.array_z[i] =
                  RDiv(cal.dfXstarcal.at[label_comb_cases(lc)[i]]["z"], lc.constant[cal.cvar])

----------------------------------------------------------------------------
(* calc_design_param_Xst under a caller that scales the resistance side *)

\* the factors k # 0 the resistance side is multiplied by
ScaleFactors == {Rat(-2, 1), Rat(-1, 1), Rat(1, 2), RInt(2), RInt(3)}

\* one-row tables of design points: resistance values (0 among them and
\* negative ones) and load values
ScalePoints ==
    {[n \in RvNames |-> IF n = "R" THEN RInt(r) ELSE IF n = "D" THEN RInt(d)
                        ELSE IF n = "Q1" THEN RInt(q) ELSE One] :
        r \in (0 - 1)..MaxVal, d \in 0..MaxVal, q \in 1..MaxVal}

\* the row dfXst with every resistance-side value multiplied by k
ScaleResistance(dfXst, k) ==
    [n \in DOMAIN dfXst |-> IF n \in SeqToSet(ResistList) THEN RMul(dfXst[n], k) ELSE dfXst[n]]

\* cal.calc_design_param_Xst(dfXst), and again with the resistance side of
\* dfXst multiplied by k
CalcDesignParamXst(dfXst, k) ==
    /\ cal.state = "ok"
    /\ call.op = "__init__"
    /\ call' = [op |-> "calc_design_param_Xst", err |-> calc_design_param_Xst(lc, dfXst).err,
                dfXst |-> dfXst, k |-> k,
                base |-> calc_design_param_Xst(lc, dfXst),
                scaled |-> calc_design_param_Xst(lc, ScaleResistance(dfXst, k))]
    /\ UNCHANGED <<comb_vrs, const_names, lc, cal, frame, stdout, loop>>

NextScale ==
    \/ lc.state = "none" /\ \E cfg \in RunLCConfigs : Construct(cfg)
    \/ \E nom \in NomVals({1}) : NewCalibration(CalConfig(lc, "alpha", "coeff", NomTable(lc, nom)))
    \/ \E dfXst \in ScalePoints, k \in ScaleFactors : CalcDesignParamXst(dfXst, k)

SpecScale == Init /\ [][NextScale]_vars

\* C9 as stated: multiplying every resistance-side value by k (k # 0), the
\* load side fixed, multiplies the derived z by 1/k.
C9_ScalesByInverseK ==
    call.op = "calc_design_param_Xst" /\ call.base.err = "none" =>
        /\ call.scaled.err = "none"
        /\ call.scaled.z = RMul(call.base.z, RDiv(One, call.k))

\* C9: multiplying every resistance-side value by k (k # 0), the load side
\* fixed, multiplies the derived z by 1/|k|; and a design point whose z
\* cannot be derived stays one under the scaling, with the same error.
C9_ScalesByInverseAbsK ==
    call.op = "calc_design_param_Xst" =>
        /\ call.scaled.err = call.base.err
        /\ call.base.err = "none" =>
              call.scaled.z = RMul(call.base.z, RDiv(One, RAbs(call.k)))

\* a design point with a nonzero z is scaled by a negative k and by a
\* fraction
C9_Witness ==
    /\ call.op = "calc_design_param_Xst"
    /\ call.base.err = "none"
    /\ ~RIsZero(call.base.z)
    /\ call.k = Rat(-2, 1)
    /\ lc.constant[cal.cvar] = RInt(2)
    /\ call.scaled.z = RDiv(call.base.z, RInt(2))

----------------------------------------------------------------------------
(* The factor estimation under a caller that applies it to tables *)

\* the declarations the estimation is applied under: one, two and three
\* combination variables
FactorDecls == {<<"L">>, <<"Q1", "Q2">>, <<"Q1", "Q2", "Q3">>}

\* the case names, one per combination variable
CaseNames == <<"c1", "c2", "c3">>
DeclaredCases == SubSeq(CaseNames, 1, Len(CombVrs))

\* the governing lists: any lists of two combination variables; of one and
\* of three, one variable per case in any order
FactorCases ==
    IF Len(CombVrs) = 2
    THEN CasesOver(DeclaredCases, SUBSET SeqToSet(CombVrs))
    ELSE OneGoverning(DeclaredCases)

FactorLCConfigs ==
    {[cases_none |-> FALSE, cases |-> cs, other_none |-> on, const_none |-> FALSE,
      zreg |-> RInt(2)] : cs \in FactorCases, on \in BOOLEAN}

\* the entries of the tables; under three combination variables the
\* resistance and static columns hold the value 1
TableValues == {One, RInt(2)}
ColumnValues(n) ==
    IF n \in SeqToSet(CombVrs) \/ Len(CombVrs) < 3 THEN TableValues ELSE {One}

\* the tables with the index idx and the columns cols
TablesOver(idx, cols) ==
    {[index |-> idx, columns |-> cols, at |-> a] :
        a \in [SeqToSet(idx) ->
                 {f \in [SeqToSet(cols) -> TableValues] :
                     \A n \in SeqToSet(cols) : f[n] \in ColumnValues(n)}]}

\* the design parameter that puts a design point on the limit state
\* surface g = R*z - (D + Q...) = 0
SurfaceZ(o, row) == RDiv(RSum(label_S(o), row), RProd(ResistList, row))

\* a design-point table as _run_calibration builds it: the design points
\* and the column z, on the limit state surface or with z = 1
WithZ(o, t, on_surface) ==
    SetColumn(t, "z", [i \in DOMAIN t.index |->
                          IF on_surface THEN SurfaceZ(o, t.at[t.index[i]]) ELSE One])

DesignTables(o) ==
    {WithZ(o, t, s) : t \in TablesOver(label_comb_cases(o), ResistList \o label_S(o)),
                      s \in BOOLEAN}

\* cal.calc_pg_coeff(dfXst) and cal.calc_pg_matrix(dfXst) of the same
\* design-point table, with the ratio table calc_Xst_nom returns for it
CalcPg(dfXst) ==
    /\ cal.state = "ok"
    /\ call.op = "__init__"
    /\ call' = [op |-> "calc_pg", err |-> "none", dfXst |-> dfXst,
                Xst_nom |-> calc_Xst_nom(lc, cal, dfXst),
                coeff |-> calc_pg_coeff(lc, cal, dfXst),
                matrix |-> calc_pg_matrix(lc, cal, dfXst)]
    /\ UNCHANGED <<comb_vrs, const_names, lc, cal, frame, stdout, loop>>

\* cal.calc_epgS_mat(dfgammanom)
CalcEpgSMat(dfgammanom) ==
    /\ cal.state = "ok"
    /\ call.op = "__init__"
    /\ call' = [op |-> "calc_epgS_mat", err |-> calc_epgS_mat(lc, dfgammanom).err,
                dfgammanom |-> dfgammanom, mat |-> calc_epgS_mat(lc, dfgammanom).mat]
    /\ UNCHANGED <<comb_vrs, const_names, lc, cal, frame, stdout, loop>>

\* the function's result applied to once more, if there is a result
Again(once, twice) == IF once.err = "none" THEN twice ELSE once

\* cal.get_psi_max(dfpsi), and cal.get_psi_max of its result
GetPsiMax(dfpsi, values) ==
    /\ cal.state = "ok"
    /\ call.op = "__init__"
    /\ call' = [op |-> "get_psi_max", err |-> get_psi_max(dfpsi, values).err,
                dfpsi |-> dfpsi, values |-> values,
                once |-> get_psi_max(dfpsi, values),
                twice |-> Again(get_psi_max(dfpsi, values),
                                get_psi_max(get_psi_max(dfpsi, values).df, values))]
    /\ UNCHANGED <<comb_vrs, const_names, lc, cal, frame, stdout, loop>>

\* cal.get_phi_max(dfphi), and cal.get_phi_max of its result
GetPhiMax(dfphi) ==
    /\ cal.state = "ok"
    /\ call.op = "__init__"
    /\ call' = [op |-> "get_phi_max", err |-> "none", dfphi |-> dfphi,
                once |-> [err |-> "none", df |-> get_phi_max(dfphi)],
                twice |-> [err |-> "none", df |-> get_phi_max(get_phi_max(dfphi))]]
    /\ UNCHANGED <<comb_vrs, const_names, lc, cal, frame, stdout, loop>>

\* a call is made on an engine that no call was made on before
Fresh == cal.state = "ok" /\ call.op = "__init__"

NextFactors ==
    \/ lc.state = "none" /\ \E cfg \in FactorLCConfigs : Construct(cfg)
    \/ \E nom \in NomVals({2}) :
          NewCalibration(CalConfig(lc, "optimize", "matrix", NomTable(lc, nom)))
    \/ Fresh /\ \E dfXst \in DesignTables(lc) : CalcPg(dfXst)
    \/ Fresh /\ \E dfgammanom \in TablesOver(label_comb_cases(lc), ResistList \o label_S(lc)) :
          CalcEpgSMat(dfgammanom)
    \/ Fresh /\ \E dfpsi \in TablesOver(label_comb_cases(lc), label_S(lc)),
          values \in {"view", "copy", "readonly"} : GetPsiMax(dfpsi, values)
    \/ Fresh /\ \E dfphi \in TablesOver(label_comb_cases(lc), ResistList) : GetPhiMax(dfphi)

SpecFactors == (\E vrs \in FactorDecls : Start(vrs)) /\ [][NextFactors]_vars

----------------------------------------------------------------------------
(* Claims about the factor estimation (checked under SpecFactors) *)

\* every combination variable governs in exactly one case
EachGovernsOnce(o) ==
    \A v \in SeqToSet(CombVrs) :
        Cardinality({i \in DOMAIN o.dict_comb_cases : v \in o.dict_comb_cases[i].max}) = 1

\* the case the combination variable v governs in
GoverningCase(o, v) ==
    o.dict_comb_cases[CHOOSE i \in DOMAIN o.dict_comb_cases : v \in o.dict_comb_cases[i].max].name

\* C12: when every combination variable v governs in exactly one case c_v,
\* the ratio table of calc_Xst_nom has in column v the value
\* design(c_v, v) / nominal(c_v, v) in every case row, every resistance and
\* static entry (c, x) is design(c, x) / nominal(c, x) of its own case, and
\* phi is the resistance slice and gamma the static + combination slice of
\* that table.
C12_ReconciledRatios ==
    call.op = "calc_pg" /\ EachGovernsOnce(lc) =>
        LET cases == SeqToSet(label_comb_cases(lc))
            Ratio(c, x) == RDiv(call.dfXst.at[c][x], cal.df_nom.at[c][x])
        IN  /\ \A c \in cases, v \in SeqToSet(CombVrs) :
                  call.Xst_nom.at[c][v] = Ratio(GoverningCase(lc, v), v)
            /\ \A c \in cases, x \in SeqToSet(ResistList \o label_other(lc)) :
                  call.Xst_nom.at[c][x] = Ratio(c, x)
            /\ call.coeff.df_phi = Select(call.Xst_nom, ResistList)
            /\ call.coeff.df_gamma = Select(call.Xst_nom, label_S(lc))

\* a case's own ratio of a variable it does not govern was replaced by a
\* different one, with a static variable declared
C12_Witness ==
    /\ call.op = "calc_pg"
    /\ EachGovernsOnce(lc)
    /\ ~lc.other_none
    /\ Len(CombVrs) = 3
    /\ \E c \in SeqToSet(label_comb_cases(lc)), v \in SeqToSet(CombVrs) :
          call.Xst_nom.at[c][v] # RDiv(call.dfXst.at[c][v], cal.df_nom.at[c][v])

\* the largest of a nonempty set of values
RMaxOf(S) == CHOOSE m \in S : \A x \in S : RLeq(x, m)

\* the entries of the column v of df in the cases v does not govern
NonGoverningEntries(o, df, v) ==
    {df.at[c][v] : c \in {r \in SeqToSet(df.index) : v \notin comb_case_max(o, r)}}

\* C13: get_psi_max takes as diagonal the entries (c, v) where the
\* combination variable v governs in case c, with any number of static
\* variables: every non-governing-case entry of a column becomes the
\* maximum of that column's non-governing-case input entries.
C13_GoverningEntriesAreTheDiagonal ==
    call.op = "get_psi_max" /\ call.values = "view" =>
        /\ call.once.err = "none"
        /\ \A v \in SeqToSet(label_S(lc)), c \in SeqToSet(label_comb_cases(lc)) :
              v \notin comb_case_max(lc, c) =>
                  call.once.df.at[c][v] = RMaxOf(NonGoverningEntries(lc, call.dfpsi, v))

\* C13 holds where the positional diagonal of the table is the governing
\* one: no static variable, and the i-th case governed by the i-th
\* combination variable
C13_GoverningDiagonalWithoutStatic ==
    call.op = "get_psi_max" /\ call.values = "view"
    /\ lc.other_none /\ GoverningAligned(lc) =>
        /\ call.once.err = "none"
        /\ \A v \in SeqToSet(label_S(lc)), c \in SeqToSet(label_comb_cases(lc)) :
              v \notin comb_case_max(lc, c) =>
                  call.once.df.at[c][v] = RMaxOf(NonGoverningEntries(lc, call.dfpsi, v))

\* C14: get_psi_max and get_phi_max are idempotent: applied to its own
\* result the function returns a table equal to that result.
C14_MaxIsIdempotent ==
    call.op \in {"get_psi_max", "get_phi_max"} /\ call.once.err = "none" =>
        /\ call.twice.err = "none"
        /\ call.twice.df = call.once.df

\* get_psi_max has changed a table with a static column through its view,
\* and get_phi_max a table
C14_Witness ==
    \/ /\ call.op = "get_psi_max"
       /\ call.values = "view"
       /\ ~lc.other_none
       /\ Len(CombVrs) = 2
       /\ call.once.df # call.dfpsi
       /\ call.once.df.at["c1"]["Q2"] = RInt(2)
    \/ /\ call.op = "get_phi_max"
       /\ Len(CombVrs) = 2
       /\ call.once.df # call.dfphi

\* C15: the matrix calc_epgS_mat returns has entry (i, i) equal to 0 for
\* every case index i.
C15_ZeroDiagonal ==
    call.op = "calc_epgS_mat" /\ call.err = "none" =>
        /\ Len(call.mat) = Len(label_comb_cases(lc))
        /\ \A i \in DOMAIN call.mat :
              /\ Len(call.mat[i]) = Len(CombVrs)
              /\ i \in DOMAIN call.mat[i] => call.mat[i][i] = Zero

\* a matrix of three cases is returned whose entries off the diagonal are
\* not 0
C15_Witness ==
    /\ call.op = "calc_epgS_mat"
    /\ call.err = "none"
    /\ Len(call.mat) = 3
    /\ \A i, j \in 1..3 : i # j => ~RIsZero(call.mat[i][j])

\* C16: in the psi table of the matrix method every static-variable entry
\* is 1, the entry of combination variable j in the j-th case is 1, every
\* other entry of combination column j is the j-th component of the solved
\* psi vector; the columns are the static variables, then the combination
\* variables, as in the gamma table.
C16_PsiTableOfMatrixMethod ==
    call.op = "calc_pg" /\ call.matrix.err = "none" =>
        LET psi == call.matrix.df_psi
            cases == label_comb_cases(lc)
        IN  /\ psi.columns = label_other(lc) \o CombVrs
            /\ psi.columns = call.matrix.df_gamma.columns
            /\ psi.index = cases
            /\ Len(call.matrix.psi) = Len(CombVrs)
            /\ \A i \in DOMAIN cases :
                  /\ \A x \in SeqToSet(label_other(lc)) : psi.at[cases[i]][x] = One
                  /\ \A j \in DOMAIN CombVrs :
                        psi.at[cases[i]][CombVrs[j]] =
                            IF i = j THEN One ELSE call.matrix.psi[j]

\* a psi table of three cases with a static column, solved to components
\* that differ and are not 1
C16_Witness ==
    /\ call.op = "calc_pg"
    /\ call.matrix.err = "none"
    /\ ~lc.other_none
    /\ Len(call.matrix.psi) = 3
    /\ call.matrix.psi[1] # call.matrix.psi[2]
    /\ call.matrix.psi[3] # One

\* every design point of the table lies on the limit state surface
OnLimitState(o, dfXst) ==
    \A c \in SeqToSet(dfXst.index) : RIsZero(eval_lsf_kwargs(o, Zero, None, dfXst.at[c]).gX)

\* C17: for the linear, separable LSF g = R*z - (sum of loads), design
\* points on g = 0 and N >= 2 cases whose i-th case is governed by the i-th
\* combination variable, the psi entries of calc_pg_matrix equal those of
\* calc_pg_coeff for every case and every load variable (N = 2 and N = 3).
C17_MethodsAgree ==
    call.op = "calc_pg" /\ GoverningAligned(lc) /\ Len(CombVrs) >= 2
    /\ OnLimitState(lc, call.dfXst) =>
        /\ call.matrix.err = "none"
        /\ \A c \in SeqToSet(label_comb_cases(lc)), x \in SeqToSet(label_S(lc)) :
              call.matrix.df_psi.at[c][x] = call.coeff.df_psi.at[c][x]

\* C17 for N = 2
C17_MethodsAgreeForTwoCases ==
    call.op = "calc_pg" /\ GoverningAligned(lc) /\ Len(CombVrs) = 2
    /\ OnLimitState(lc, call.dfXst) =>
        /\ call.matrix.err = "none"
        /\ \A c \in SeqToSet(label_comb_cases(lc)), x \in SeqToSet(label_S(lc)) :
              call.matrix.df_psi.at[c][x] = call.coeff.df_psi.at[c][x]

----------------------------------------------------------------------------
(* The engine with its default settings under a caller that runs it again *)

\* calib_method="optimize" and est_method="matrix", the defaults of __init__
DefaultCalibMethod == "optimize"
DefaultEstMethod == "matrix"

\* cal.run is called at most MaxRuns times on an engine
MaxRuns == 2

\* one case per combination variable, governed by it, a static variable,
\* and the design parameter registered as 2
RerunLCConfigs ==
    {[cases_none |-> FALSE, cases |-> cs, other_none |-> FALSE, const_none |-> FALSE,
      zreg |-> RInt(2)] : cs \in OneGoverning(DeclaredCases)}

\* the solver's answers: on target, with one of two design points
RerunAnswers ==
    {[beta |-> BetaT, alpha |-> OnePoint,
      xstar |-> [n \in RvNames |-> IF n = CombVrs[1] THEN RInt(v) ELSE One]] : v \in {1, 2}}

\* the est_method arguments of run (set_max left False)
RerunArguments == {None, Some("coeff"), Some("unknown")}

\* cal.run(...) once more after a run that returned
Rerun ==
    /\ cal.state = "ok"
    /\ loop.pc = "done"
    /\ frame.pc = "none"
    /\ cal.runs < MaxRuns
    /\ loop' = [pc |-> "cases", err |-> "none", est_method |-> "", set_max |-> FALSE,
                startz |-> IF ~cal.startz.none THEN cal.startz.val
                           ELSE lc.constant[cal.cvar],
                i |-> 1, list_z_cal |-> <<>>, list_form_cal |-> <<>>, produced |-> <<>>]
    /\ UNCHANGED <<comb_vrs, const_names, lc, call, cal, frame, stdout>>

NextRerun ==
    \/ lc.state = "none" /\ \E cfg \in RerunLCConfigs : Construct(cfg)
    \/ \E nom \in NomVals({2}) :
          NewCalibration(CalConfig(lc, DefaultCalibMethod, DefaultEstMethod, NomTable(lc, nom)))
    \/ Run
    \/ Rerun
    \/ \E ans \in RerunAnswers : CaseCall(ans)
    \/ \E ans \in RerunAnswers, Zk \in FsolvePoints : FsolveEval(ans, Zk)
    \/ \E converged \in BOOLEAN, ans \in RerunAnswers : FsolveReturn(converged, ans)
    \/ CaseReturn
    \/ \E e \in RerunArguments : Finish(e, FALSE, "view")

SpecRerun ==
    (\E vrs \in {<<"L">>, <<"Q1", "Q2">>} : Start(vrs)) /\ [][NextRerun]_vars

----------------------------------------------------------------------------
(* Claims about the engine run with its defaults and run again *)

\* one combination case in which the only combination variable governs
SingleCase(o) ==
    /\ Len(CombVrs) = 1
    /\ Len(o.dict_comb_cases) = 1
    /\ o.dict_comb_cases[1].max = {CombVrs[1]}

\* the run of an engine built with the default methods, with the default
\* arguments of run, has returned or has raised in its estimation
DefaultRunEnded ==
    /\ loop.pc \in {"done", "raised"}
    /\ cal.calib_method = DefaultCalibMethod
    /\ cal.est_method = DefaultEstMethod
    /\ loop.est_method = cal.est_method
    /\ ~loop.set_max

\* the factor tables of the single case: phi = design(R) / nominal(R),
\* gamma_D = design(D) / nominal(D), psi_L = 1
SingleCaseFactors(c) ==
    /\ cal.df_phi.at[c]["R"] = RDiv(cal.dfXstarcal.at[c]["R"], cal.df_nom.at[c]["R"])
    /\ cal.df_gamma.at[c]["D"] = RDiv(cal.dfXstarcal.at[c]["D"], cal.df_nom.at[c]["D"])
    /\ cal.df_psi.at[c][CombVrs[1]] = One

\* C11: with a single combination case in which the only combination
\* variable L governs, Calibration.run with its default settings completes
\* without raising and yields phi = design(R)/nominal(R),
\* gamma_D = design(D)/nominal(D) and psi_L = 1.0.
C11_SingleCaseDefaultRun ==
    SingleCase(lc) /\ DefaultRunEnded =>
        /\ loop.pc = "done"
        /\ SingleCaseFactors(label_comb_cases(lc)[1])

\* what the default run does on the single case: the matrix estimation
\* raises LinAlgError (its 1 x 1 matrix is the zero matrix)
C11_SingleCaseDefaultRunRaises ==
    SingleCase(lc) /\ DefaultRunEnded =>
        loop.pc = "raised" /\ loop.err = "LinAlgError"

\* the factors of C11 are the ones run(est_method="coeff") yields
C11_SingleCaseCoeffRun ==
    SingleCase(lc) /\ loop.pc \in {"done", "raised"} /\ loop.est_method = "coeff" =>
        /\ loop.pc = "done"
        /\ SingleCaseFactors(label_comb_cases(lc)[1])

\* the engine's factor tables are the ones the method m derives from the
\* engine's design-point table
TablesDerivedBy(m) ==
    LET Same(f) ==
            /\ f.err = "none"
            /\ cal.df_phi = f.df_phi
            /\ cal.df_gamma = f.df_gamma
            /\ cal.df_psi = f.df_psi
    IN  Same(estimate_factors(lc, cal, m, loop.set_max, "view"))

\* C18: after any sequence of calls of run, with any est_method argument,
\* the phi, gamma and psi tables of the engine are the ones derived from
\* the design-point table the most recent call rebuilt: no run leaves the
\* factor tables of an earlier run (or none) next to a newer design-point
\* table.
C18_FactorTablesOfLatestRun ==
    loop.pc = "done" => TablesDerivedBy("coeff") \/ TablesDerivedBy("matrix")

\* C18 for the runs whose est_method is one run has a branch for
C18_FactorTablesOfLatestKnownMethod ==
    loop.pc = "done" /\ loop.est_method \in {"coeff", "matrix"} =>
        TablesDerivedBy(loop.est_method)

\* a second run has returned with a new design-point table and has left the
\* factor tables of the first run in place
C18_StaleFactorTables ==
    /\ loop.pc = "done"
    /\ cal.runs = 2
    /\ cal.df_gamma # NoTable
    /\ ~(TablesDerivedBy("coeff") \/ TablesDerivedBy("matrix"))

----------------------------------------------------------------------------
(* The load-combination model during a run (checked under SpecRun) *)

\* the initial guess of a run: the engine's startz if one was set, else the
\* registered value of the design parameter
RegisteredStart == IF cal.startz.none THEN lc.constant[cal.cvar] ELSE cal.startz.val

\* C19: a calibration run leaves the LoadCombination model unchanged (the
\* per-case distribution table, the case table and every registered
\* constant, the design parameter's value among them, are the same after
\* calibrating any number of cases), and every case's strategy starts from
\* the same initial guess z0, whatever the cases before it were calibrated
\* to.
C19_LoadCombinationUnchanged ==
    /\ [](frame.pc # "none" /\ frame.caller = "run" => frame.z0 = Scalar(RegisteredStart))
    /\ [][lc.state = "ok" => lc' = lc]_vars

\* the second case is being calibrated after the first case was calibrated
\* to a design parameter other than the initial guess
C19_Witness ==
    /\ loop.pc = "cases"
    /\ ~lc.constant_none
    /\ Len(loop.produced) = 1
    /\ loop.produced[1].z # loop.startz
    /\ frame.pc # "none"
    /\ frame.caller = "run"
    /\ frame.n_iter > 0
    /\ frame.z0 = Scalar(lc.constant[cal.cvar])
    /\ lc.constant[cal.cvar] = RInt(2)

----------------------------------------------------------------------------
(* The engine run on a design parameter of any name *)

\* the names the caller gives the design parameter (the one constant of the
\* LSF, passed as calib_var)
CalibVarNames == {"z", "zeta"}

\* Calibration(lc, ..., calib_var).run(...) for a LoadCombination whose
\* design parameter is declared under one of CalibVarNames
SpecNamed ==
    (\E name \in CalibVarNames : StartNamed(<<"Q1", "Q2">>, <<name>>)) /\ [][NextRerun]_vars

----------------------------------------------------------------------------
(* Claims about the name of the design parameter's column *)

\* a run has built its design-point table and has gone on to the matrix method
MatrixRunEnded ==
    /\ loop.pc \in {"done", "raised"}
    /\ loop.est_method = "matrix"

\* the design-point table holds every case's calibrated design parameter in
\* the column calc_phiRz_egS_vect looks up (cvar), and the lookup succeeds
CalibVarColumnRead ==
    /\ cal.cvar \in SeqToSet(cal.dfXstarcal.columns)
    /\ \A i \in DOMAIN label_comb_cases(lc) :
          cal.dfXstarcal.at[label_comb_cases(lc)[i]][cal.cvar] = loop.produced[i].z
    /\ calc_phiRz_egS_vect(lc, cal, cal.dfXstarcal).err # "KeyError"
    /\ loop.err # "KeyError"

\* C21: for every calib_var name the column of the design-point table that
\* _run_calibration writes the calibrated design parameters to is the column
\* calc_phiRz_egS_vect looks up, so the matrix method reads every case's
\* calibrated design parameter and its lookup never fails.
C21_ColumnUnderCalibVar ==
    MatrixRunEnded => CalibVarColumnRead

\* the same for a design parameter that is named z
C21_ColumnUnderCalibVarNamedZ ==
    MatrixRunEnded /\ cal.cvar = "z" => CalibVarColumnRead

\* a run of the matrix method on a design parameter named zeta has raised
\* KeyError: the column written is z, the column looked up is zeta
C21_LookupFails ==
    /\ MatrixRunEnded
    /\ cal.cvar = "zeta"
    /\ loop.pc = "raised"
    /\ loop.err = "KeyError"
    /\ "z" \in SeqToSet(cal.dfXstarcal.columns)
    /\ "zeta" \notin SeqToSet(cal.dfXstarcal.columns)
    /\ cal.df_psi = NoTable

----------------------------------------------------------------------------
(* Claims about a case that is on target at its initial guess *)

\* _calibration_alpha has returned without an iteration
ZeroIterationReturn ==
    /\ frame.pc = "returned"
    /\ frame.strategy = "alpha"
    /\ frame.caller = "run"
    /\ frame.n_iter = 0

\* the cases collected so far whose strategy returned its z0 as it got it (a
\* float, not the one-entry array an iteration makes)
ZeroIterationCases == {i \in DOMAIN loop.list_z_cal : loop.list_z_cal[i].ndim = 0}

\* the loop of _calibrate_design_param is over all cases of an engine that
\* uses alpha-projection, one of them collected without an iteration
ZeroIterationRunEnded ==
    /\ loop.pc \in {"done", "raised"}
    /\ cal.calib_method = "alpha"
    /\ Len(loop.list_z_cal) = Len(label_comb_cases(lc))
    /\ ZeroIterationCases # {}

\* C22: when the solver at the initial guess z0 is within tolerance of the
\* target, alpha-projection returns z0 and the initial result after zero
\* iterations, and _calibrate_design_param collects that case like any
\* other: the run completes and the design-parameter entry of the case in
\* the design-point table is z0.
C22_ZeroIterationCaseCollected ==
    /\ ZeroIterationReturn =>
          /\ frame.exit = "converged"
          /\ frame.ret.Zk_opt.val = loop.startz
          /\ frame.ret.form = frame.form_cal
          /\ ~lc.constant_none => Paired(frame.ret.Zk_opt, frame.ret.form, frame.lcn)
    /\ ZeroIterationRunEnded =>
          /\ loop.pc = "done"
          /\ \A i \in ZeroIterationCases :
                cal.dfXstarcal.at[label_comb_cases(lc)[i]]["z"] = loop.startz

\* what the code does for such a case: the strategy returns the float z0
\* with the initial result, and np.concatenate raises ValueError on it, so
\* the run raises before any table is built
C22_ZeroIterationRunRaises ==
    /\ ZeroIterationReturn =>
          /\ frame.exit = "converged"
          /\ frame.ret.Zk_opt = Scalar(loop.startz)
          /\ frame.ret.form = frame.form_cal
          /\ ~lc.constant_none => Paired(frame.ret.Zk_opt, frame.ret.form, frame.lcn)
    /\ loop.pc # "none" /\ frame.pc = "none" =>
          \A i \in DOMAIN loop.list_z_cal :
              (i \in ZeroIterationCases) = (cal.calib_method = "alpha"
                                            /\ loop.produced[i].z = loop.startz
                                            /\ loop.list_z_cal[i] = Scalar(loop.startz))
    /\ ZeroIterationRunEnded =>
          /\ loop.pc = "raised"
          /\ loop.err = "ValueError"
          /\ cal.dfXstarcal = NoTable

\* a run of two cases, the first on target at z0 and the second calibrated
\* in an iteration to another design parameter, has raised ValueError
C22_MixedRunRaised ==
    /\ ZeroIterationRunEnded
    /\ ZeroIterationCases = {1}
    /\ loop.list_z_cal[2].ndim = 1
    /\ loop.list_z_cal[2].val # loop.startz
    /\ loop.err = "ValueError"

----------------------------------------------------------------------------
(* Claims about eval_lsf_kwargs on a model without constants *)

\* eval_lsf_kwargs was called with keywords of declared names on a
\* LoadCombination constructed with list_const=None
EvalWithoutConstants ==
    /\ call.op = "eval_lsf_kwargs"
    /\ lc.constant_none
    /\ DOMAIN call.kwargs \subseteq SeqToSet(label_all(lc))

\* C23: eval_lsf_kwargs returns the LSF value also on a LoadCombination
\* constructed without constants (list_const=None): every declared variable
\* not supplied is set to set_value, the LSF is evaluated, and no error is
\* raised.
C23_EvalWithoutConstantsReturns ==
    EvalWithoutConstants =>
        /\ call.err = "none"
        /\ call.called
        /\ DOMAIN call.args = SeqToSet(label_all(lc))
        /\ \A n \in SeqToSet(label_all(lc)) :
              call.args[n] = IF n \in DOMAIN call.kwargs THEN call.kwargs[n]
                             ELSE call.set_value
        /\ call.gX = RSub(RProd(ResistList, call.args),
                          RSum(label_other(lc) \o CombVrs, call.args))

\* what the code does there: the missing variables are filled, then
\* self.constant.items() raises AttributeError on None and the LSF is not
\* called
C23_EvalWithoutConstantsRaises ==
    EvalWithoutConstants =>
        /\ call.err = "AttributeError"
        /\ ~call.called
        /\ \A n \in SeqToSet(label_all(lc)) :
              call.args[n] = IF n \in DOMAIN call.kwargs THEN call.kwargs[n]
                             ELSE call.set_value

\* a call that supplies the resistance only, on a LoadCombination with a
\* static variable and without constants, has raised
C23_RaisedWithoutConstants ==
    /\ EvalWithoutConstants
    /\ DOMAIN call.kwargs = {"R"}
    /\ ~lc.other_none
    /\ call.set_value = One
    /\ call.err = "AttributeError"

====
